---- MODULE Spec2Model ----
(***************************************************************************)
(* Model of the afed expression engine: code blocks (util/mcode.c), the    *)
(* shunting yard (util/shunt.c), the builtin registry (bltn.c), the        *)
(* rational arithmetic (arith/arith.c) and the namespace (nmsp.c).         *)
(*                                                                         *)
(* Text is modelled after tokenisation: an expression is a sequence of     *)
(* tokens, a definition is a label (name and parameter names) followed by  *)
(* an expression.  Pointers are modelled as indices: a code block is an    *)
(* index into the heap `blocks`, a variable an index into `vars` (creation *)
(* order; the linked list of the namespace runs from the newest variable   *)
(* to the oldest).  0 is the NULL pointer.                                 *)
(***************************************************************************)
EXTENDS Integers, Sequences, FiniteSets, TLC

(***************************************************************************)
(* Bounds of the model                                                     *)
(***************************************************************************)
\* Number of API calls (define, put, value) in one behaviour
MaxCalls == 3
\* Depth of nested block evaluation after which the C stack is taken to overflow
MaxCallDepth == 3
\* Number of queue pops after which the cycle check is taken not to end
MaxQueueOps == 24

(***************************************************************************)
(* Program constants                                                       *)
(***************************************************************************)
\* Initial capacity of the evaluation stack
StkCap == 8

NULL == 0

(***************************************************************************)
(* Arithmetic values (arith/arith.c, rational variant)                     *)
(***************************************************************************)
\* A rational value num / den
Ratio(n, d) == [type |-> "RATIO", num |-> n, den |-> d]
\* No value (NULL arith_t, or the unspecified value that accompanies an error)
NoVal == [type |-> "NONE", num |-> 0, den |-> 0]
\* What a read through a dangling pointer may yield
Garbage == [type |-> "GARBAGE", num |-> 0, den |-> 0]

\* A real (floating point) value; the model does not track which one
Real == [type |-> "REAL", num |-> 0, den |-> 0]

\* One operand is real and the other real or rational: the result is real
Promoted(args) ==
    /\ args[1].type \in {"RATIO", "REAL"}
    /\ args[2].type \in {"RATIO", "REAL"}
    /\ "REAL" \in {args[1].type, args[2].type}

Abs(n) == IF n < 0 THEN -n ELSE n

\* The number of bits the model gives to long and unsigned long.  The build has
\* 64; every operation below is the operation of the build modulo 2^WordBits.
WordBits == 8

LONG_MIN == -(2 ^ (WordBits - 1))
LONG_MAX == 2 ^ (WordBits - 1) - 1

\* Conversion to unsigned long: modulo 2^WordBits
ULong(x) == x % (2 ^ WordBits)

\* Conversion to long, and the result of an operation on long that overflows:
\* two's complement wrap-around
Long(x) == ((x - LONG_MIN) % (2 ^ WordBits)) + LONG_MIN

Sign(n) == IF n < 0 THEN -1 ELSE IF n > 0 THEN 1 ELSE 0

\* The operators / and % of C on integers, b # 0: the quotient is truncated
\* towards zero and the remainder has the sign of the dividend
CDiv(a, b) == Sign(a) * Sign(b) * (Abs(a) \div Abs(b))
CRem(a, b) == Sign(a) * (Abs(a) % Abs(b))

RECURSIVE Gcd(_, _)
Gcd(a, b) == IF a = 0 THEN b ELSE Gcd(b % a, a)

\* The end of simplify: both fields are divided by the divisor b found
Reduced(v, b) == [v EXCEPT !.num = CDiv(v.num, Long(b)), !.den = v.den \div b]

\* The divisor that Euclid's algorithm finds for a = |num| and b = den
Divisor(a, b) == IF a > b THEN Gcd(b, a) ELSE Gcd(a, b)

\* simplify: normalise a rational by Euclid's algorithm
simplify(v) ==
    IF v.type # "RATIO" THEN v
    ELSE IF v.num = 0 THEN [v EXCEPT !.den = 1]
    ELSE IF v.den = 0 THEN [v EXCEPT !.num = 1]
    ELSE Reduced(v, Divisor(ULong(Abs(v.num)), v.den))

\* Every arithmetic function returns a value and leaves *errp untouched
ArithRet(v) == [val |-> v, err |-> "OK"]

\* The process is killed by SIGFPE inside the function
ArithTrap == [val |-> NoVal, err |-> "SIGFPE"]

arith_neg(args) ==
    IF args[1].type # "RATIO" THEN ArithRet(args[1])
    ELSE ArithRet([args[1] EXCEPT !.num = Long(-args[1].num)])

arith_add(args) ==
    IF Promoted(args) THEN ArithRet(Real)
    ELSE IF args[1].type # "RATIO" \/ args[2].type # "RATIO" THEN ArithRet(Garbage)
    ELSE ArithRet(simplify(Ratio(Long(args[1].num * args[2].den + args[2].num * args[1].den),
                                 ULong(args[1].den * args[2].den))))

arith_sub(args) ==
    IF Promoted(args) THEN ArithRet(Real)
    ELSE IF args[1].type # "RATIO" \/ args[2].type # "RATIO" THEN ArithRet(Garbage)
    ELSE ArithRet(simplify(Ratio(Long(args[1].num * args[2].den - args[2].num * args[1].den),
                                 ULong(args[1].den * args[2].den))))

arith_mul(args) ==
    IF Promoted(args) THEN ArithRet(Real)
    ELSE IF args[1].type # "RATIO" \/ args[2].type # "RATIO" THEN ArithRet(Garbage)
    ELSE ArithRet(simplify(Ratio(Long(args[1].num * args[2].num),
                                 ULong(args[1].den * args[2].den))))

\* The rational case of arith_div before simplify: the sign of the divisor
\* moves to the numerator
Quotient(fst, snd) ==
    IF snd.num < 0
    THEN Ratio(Long(-(fst.num * snd.den)), ULong(fst.den * ULong(-snd.num)))
    ELSE Ratio(Long(fst.num * snd.den), ULong(fst.den * snd.num))

arith_div(args) ==
    IF Promoted(args) THEN ArithRet(Real)
    ELSE IF args[1].type # "RATIO" \/ args[2].type # "RATIO" THEN ArithRet(Garbage)
    ELSE ArithRet(simplify(Quotient(args[1], args[2])))

\* What the undefined operations of C do in a build: on x86-64 an integer
\* remainder by zero (or of LONG_MIN by -1) raises SIGFPE and a conversion of
\* an infinite or NaN double to long gives LONG_MIN; on AArch64 the remainder
\* by zero is the dividend and the conversion saturates (NaN gives 0)
ArithUB == {"x86-64", "AArch64"}

\* A double: finite (the quotient num / den of two integers, den > 0),
\* infinite with a sign, or NaN.  The operands of the model are small, so the
\* finite values of the build are exact.
Fin(n, d) == [kind |-> "fin", num |-> n, den |-> d]
Inf(sgn) == [kind |-> "inf", num |-> sgn, den |-> 0]
NaN == [kind |-> "nan", num |-> 0, den |-> 0]

SignOf(x) == IF x.kind = "nan" THEN 0 ELSE Sign(x.num)

\* x / n in double arithmetic, n an integer converted to double
DblDiv(x, n) ==
    IF x.kind = "nan" THEN NaN
    ELSE IF x.kind = "inf" THEN Inf(IF n < 0 THEN -x.num ELSE x.num)
    ELSE IF n = 0 THEN (IF x.num = 0 THEN NaN ELSE Inf(Sign(x.num)))
    ELSE Fin(Sign(n) * x.num, x.den * Abs(n))

\* (long)floor(x) and (long)ceil(x)
ToLong(x, up, ub) ==
    IF x.kind = "fin"
    THEN Long(IF up THEN -((-x.num) \div x.den) ELSE x.num \div x.den)
    ELSE IF ub = "x86-64" THEN LONG_MIN
    ELSE IF x.kind = "nan" THEN 0
    ELSE IF x.num > 0 THEN LONG_MAX ELSE LONG_MIN

\* toreal(val): (double)val.num / val.den
toreal(val) == DblDiv(Fin(val.num, 1), val.den)

\* The result of a function that floors a real: a rational with den = 1 whose
\* numerator the model does not track
Floored == [type |-> "RATIO", num |-> 0, den |-> 1]

\* arith_flrdiv: (long)floor((double)fst.num * snd.den / fst.den / snd.num)
arith_flrdiv(args, ub) ==
    IF Promoted(args) THEN ArithRet(Floored)
    ELSE IF args[1].type # "RATIO" \/ args[2].type # "RATIO" THEN ArithRet(Garbage)
    ELSE ArithRet(Ratio(ToLong(DblDiv(DblDiv(Fin(args[1].num * args[2].den, 1),
                                             args[1].den),
                                      args[2].num),
                               FALSE, ub),
                        1))

\* The rational case of arith_mod: num is the numerator after fst.num *= snd.den
\* and m the modulus snd.num * (long)fst.den
Remainder(num, m, den, ub) ==
    IF m = 0 \/ (num = LONG_MIN /\ m = -1)
    THEN IF ub = "x86-64" THEN ArithTrap
         ELSE ArithRet(simplify(Ratio(IF m = 0 THEN num ELSE 0, den)))
    ELSE ArithRet(simplify(Ratio(CRem(num, m), den)))

arith_mod(args, ub) ==
    IF Promoted(args) THEN ArithRet(Real)
    ELSE IF args[1].type # "RATIO" \/ args[2].type # "RATIO" THEN ArithRet(Garbage)
    ELSE Remainder(Long(args[1].num * args[2].den), Long(args[2].num * Long(args[1].den)),
                   ULong(args[1].den * args[2].den), ub)

arith_abs(args) ==
    IF args[1].type # "RATIO" THEN ArithRet(args[1])
    ELSE ArithRet([args[1] EXCEPT !.num = IF @ < 0 THEN Long(-@) ELSE @])

arith_floor(args, ub) ==
    IF args[1].type = "REAL" THEN ArithRet(Floored)
    ELSE IF args[1].type # "RATIO" THEN ArithRet(Garbage)
    ELSE ArithRet(Ratio(ToLong(toreal(args[1]), FALSE, ub), 1))

arith_ceil(args, ub) ==
    IF args[1].type = "REAL" THEN ArithRet(Floored)
    ELSE IF args[1].type # "RATIO" THEN ArithRet(Garbage)
    ELSE ArithRet(Ratio(ToLong(toreal(args[1]), TRUE, ub), 1))

\* The loop of int_pow: square and multiply
RECURSIVE PowLoop(_, _, _, _, _)
PowLoop(num_pow, den_pow, num_step, den_step, pow) ==
    IF pow <= 0 THEN Ratio(num_pow, den_pow)
    ELSE PowLoop(IF pow % 2 = 1 THEN Long(num_pow * num_step) ELSE num_pow,
                 IF pow % 2 = 1 THEN ULong(den_pow * den_step) ELSE den_pow,
                 Long(num_step * num_step), ULong(den_step * den_step), pow \div 2)

\* int_pow: a negative power inverts the base first
int_pow(val, pow) ==
    IF pow >= 0 THEN PowLoop(1, 1, val.num, val.den, pow)
    ELSE IF val.num < 0 THEN PowLoop(1, 1, Long(-Long(val.den)), ULong(-val.num), -pow)
    ELSE PowLoop(1, 1, Long(val.den), ULong(val.num), -pow)

\* arith_pow: exact for an integer exponent, real otherwise
arith_pow(args) ==
    IF args[1].type = "RATIO" /\ args[2].type = "RATIO"
    THEN IF args[2].den = 1 THEN ArithRet(int_pow(args[1], args[2].num))
         ELSE ArithRet(Real)
    ELSE IF Promoted(args) THEN ArithRet(Real)
    ELSE ArithRet(Garbage)

\* The value of a decimal digit
DigitVal == [c \in {"0", "2", "3", "5"} |-> CASE c = "0" -> 0 [] c = "2" -> 2
                                                 [] c = "3" -> 3 [] c = "5" -> 5]
IsDigit(c) == c \in DOMAIN DigitVal

\* The number of digits at the start of str from position i on
RECURSIVE DigitRun(_, _)
DigitRun(str, i) ==
    IF i > Len(str) \/ ~IsDigit(str[i]) THEN 0 ELSE 1 + DigitRun(str, i + 1)

\* The value of the digits str[i..j], at most LONG_MAX (strtol returns
\* LONG_MAX when the value is out of range)
RECURSIVE DigitsVal(_, _, _, _)
DigitsVal(str, i, j, acc) ==
    IF i > j THEN acc
    ELSE DigitsVal(str, i + 1, j,
                   IF acc * 10 + DigitVal[str[i]] > LONG_MAX THEN LONG_MAX + 1
                   ELSE acc * 10 + DigitVal[str[i]])

\* strtol(str, &iend, 10) on a text of digits and points: the value and the
\* number of characters before iend
strtol(str) ==
    [val |-> IF DigitsVal(str, 1, DigitRun(str, 1), 0) > LONG_MAX THEN LONG_MAX
             ELSE DigitsVal(str, 1, DigitRun(str, 1), 0),
     exact |-> DigitsVal(str, 1, DigitRun(str, 1), 0) <= LONG_MAX,
     end |-> DigitRun(str, 1)]

\* The digits after a decimal point that follows n integer digits
FracRun(str, n) ==
    IF n < Len(str) /\ str[n + 1] = "." THEN DigitRun(str, n + 2) ELSE 0

HasPoint(str, n) == n < Len(str) /\ str[n + 1] = "."

\* strtod(str, &fend) on such a text: digits, then optionally a point and
\* digits, with one digit at least.  whole: the value is the integer that
\* strtol read; end: the number of characters before fend.
strtod(str, n, f) ==
    IF n + f = 0 THEN [whole |-> FALSE, end |-> 0]
    ELSE [whole |-> \A k \in 1..f : str[n + 1 + k] = "0",
          end |-> IF HasPoint(str, n) THEN n + 1 + f ELSE n]

\* The branches of arith_parse, i and r being what strtol and strtod returned.
\* When neither branch is taken val is returned as it was declared.
Literal(i, r) ==
    IF r.end > 0 /\ r.whole /\ i.exact /\ i.end # 0
    THEN [val |-> Ratio(i.val, 1), end |-> i.end]
    ELSE IF r.end # 0 THEN [val |-> Real, end |-> r.end]
    ELSE [val |-> Garbage, end |-> 0]

\* arith_parse on a text of characters: the value and the number of characters
\* before *endptr
arith_parse_text(str) ==
    Literal(strtol(str), strtod(str, DigitRun(str, 1), FracRun(str, DigitRun(str, 1))))

\* The error code a failing function stores in *errp (a positive arith_err_t)
ArithErr == "ARITH_ERR"

\* A function of type arith_func_t that reports an error through errp
arith_func_fails(args) == [val |-> NoVal, err |-> ArithErr]

\* Call through a function pointer
ArithCall(func, args) ==
    CASE func = "arith_neg" -> arith_neg(args)
      [] func = "arith_add" -> arith_add(args)
      [] func = "arith_sub" -> arith_sub(args)
      [] func = "arith_mul" -> arith_mul(args)
      [] func = "arith_abs" -> arith_abs(args)
      [] func = "arith_pow" -> arith_pow(args)
      [] func = "arith_func_fails" -> arith_func_fails(args)

(***************************************************************************)
(* Code blocks (util/mcode.c)                                              *)
(***************************************************************************)
Instr(ty, ar, arg, val, code, func) ==
    [type |-> ty, arity |-> ar, arg |-> arg, value |-> val, code |-> code, func |-> func]

\* mcode_new: an empty block of the given arity (-1: undetermined)
mcode_new(arity) ==
    [instrs |-> <<>>, arity |-> arity, stk_ht |-> 0,
     is_cached |-> FALSE, err |-> "OK", value |-> NoVal]

mcode_get_arity(bs, c) == bs[c].arity

mcode_stack_height(bs, c) == bs[c].stk_ht

\* Largest argument index loaded by the instructions, -1 if none
RECURSIVE MaxArg(_)
MaxArg(instrs) ==
    IF instrs = <<>> THEN -1
    ELSE LET m == MaxArg(Tail(instrs))
             h == Head(instrs)
         IN  IF h.type = "ARG_LOAD" /\ h.arg > m THEN h.arg ELSE m

\* A set_arity that overwrites an arity that is already determined
mcode_set_arity_again(bs, c, new_arity) ==
    IF MaxArg(bs[c].instrs) >= new_arity THEN bs
    ELSE [bs EXCEPT ![c].arity = new_arity]

\* mcode_set_arity: returns the heap; the arity changes only when undetermined
mcode_set_arity(bs, c, new_arity) ==
    IF bs[c].arity >= 0 THEN bs
    ELSE IF MaxArg(bs[c].instrs) >= new_arity THEN bs
    ELSE [bs EXCEPT ![c].arity = new_arity]

\* mcode_clear on one block: drop the cached value and error
mcode_clear(b) ==
    IF ~b.is_cached THEN b
    ELSE [b EXCEPT !.is_cached = FALSE, !.err = "OK", !.value = NoVal]

\* A reset that forgets to zero the tracked height
mcode_reset_keeps_height(bs, c) ==
    [bs EXCEPT ![c] = [mcode_clear(bs[c]) EXCEPT !.instrs = <<>>]]

\* mcode_reset: remove instructions and caching, the arity stays
mcode_reset(bs, c) ==
    [bs EXCEPT ![c] = [mcode_clear(bs[c]) EXCEPT !.stk_ht = 0, !.instrs = <<>>]]

McRet(bs, fail) == [bs |-> bs, fail |-> fail]

PushInstr(b, ins, dht) ==
    [mcode_clear(b) EXCEPT !.instrs = Append(@, ins), !.stk_ht = @ + dht]

mcode_load_const(bs, c, value) ==
    IF c = NULL \/ bs[c].stk_ht < 0 THEN McRet(bs, TRUE)
    ELSE McRet([bs EXCEPT ![c] =
                   PushInstr(@, Instr("CONST_LOAD", 0, 0, value, NULL, ""), 1)], FALSE)

mcode_load_arg(bs, c, arg) ==
    IF c = NULL \/ bs[c].stk_ht < 0 \/ arg < 0
       \/ (bs[c].arity >= 0 /\ bs[c].arity < arg)
    THEN McRet(bs, TRUE)
    ELSE McRet([bs EXCEPT ![c] =
                   PushInstr(@, Instr("ARG_LOAD", 0, arg, NoVal, NULL, ""), 1)], FALSE)

\* A call appended without comparing the stack height with the callee's arity
mcode_call_code_unchecked(bs, c, callee) ==
    IF c = NULL \/ bs[c].stk_ht < 0 \/ callee = NULL
       \/ bs[callee].arity < 0
    THEN McRet(bs, TRUE)
    ELSE McRet([bs EXCEPT ![c] =
                   PushInstr(@, Instr("CODE_CALL", bs[callee].arity, 0, NoVal, callee, ""),
                             1 - bs[callee].arity)], FALSE)

mcode_call_code(bs, c, callee) ==
    IF c = NULL \/ bs[c].stk_ht < 0 \/ callee = NULL
       \/ bs[callee].arity < 0
       \/ bs[c].stk_ht < bs[callee].arity
    THEN McRet(bs, TRUE)
    ELSE McRet([bs EXCEPT ![c] =
                   PushInstr(@, Instr("CODE_CALL", bs[callee].arity, 0, NoVal, callee, ""),
                             1 - bs[callee].arity)], FALSE)

\* The last `arity` instructions are all constant loads
TopAllConst(instrs, arity) ==
    \A i \in (Len(instrs) - arity + 1)..Len(instrs) : instrs[i].type = "CONST_LOAD"

mcode_call_func(bs, c, arity, func, try_eval) ==
    IF c = NULL \/ bs[c].stk_ht < 0 \/ func = ""
       \/ arity < 0
       \/ bs[c].stk_ht < arity
    THEN McRet(bs, TRUE)
    ELSE LET b    == mcode_clear(bs[c])
             len  == Len(b.instrs)
         IN  IF try_eval /\ TopAllConst(b.instrs, arity)
             THEN LET args == [i \in 1..arity |-> b.instrs[len - arity + i].value]
                      r    == ArithCall(func, args)
                      cut  == [b EXCEPT !.instrs = SubSeq(@, 1, len - arity),
                                        !.stk_ht = @ - arity]
                  IN  IF r.err # "OK"
                      THEN McRet([bs EXCEPT ![c] =
                                     [cut EXCEPT !.is_cached = TRUE, !.err = r.err]], TRUE)
                      ELSE mcode_load_const([bs EXCEPT ![c] = cut], c, r.val)
             ELSE McRet([bs EXCEPT ![c] =
                            PushInstr(b, Instr("FUNC_CALL", arity, 0, NoVal, NULL, func),
                                      1 - arity)], FALSE)

\* mcode_deplist: distinct callees of the CODE_CALL instructions, first occurrence first
RECURSIVE DepScan(_, _)
DepScan(instrs, deps) ==
    IF instrs = <<>> THEN deps
    ELSE LET h == Head(instrs)
         IN  IF h.type = "CODE_CALL" /\ ~(\E i \in 1..Len(deps) : deps[i] = h.code)
             THEN DepScan(Tail(instrs), Append(deps, h.code))
             ELSE DepScan(Tail(instrs), deps)

mcode_deplist(bs, c) == DepScan(bs[c].instrs, <<>>)

(***************************************************************************)
(* Evaluation (util/mcode.c).  The value stack is a growable array: `ptr`  *)
(* holds the values below `top`, `cap` is its capacity and `epoch` counts  *)
(* the reallocations.  The arguments of a block called from another block  *)
(* are a pointer into the stack (base index and the epoch at which it was  *)
(* taken); a realloc after that leaves the pointer dangling.  `ub` selects *)
(* what a read through a dangling pointer does: it finds the old value     *)
(* still there, finds something else, or faults.                           *)
(***************************************************************************)
UBOutcomes == {"intact", "clobbered", "trap"}

NoArgs == [null |-> TRUE, base |-> 0, epoch |-> 0]
ArgsAt(base, epoch) == [null |-> FALSE, base |-> base, epoch |-> epoch]

NewStack == [ptr |-> <<>>, cap |-> StkCap, epoch |-> 0]

\* stk_push followed by the store of `v` into the new slot
stk_push(stk, v) ==
    IF Len(stk.ptr) >= stk.cap
    THEN [ptr |-> Append(stk.ptr, v), cap |-> stk.cap * 2, epoch |-> stk.epoch + 1]
    ELSE [stk EXCEPT !.ptr = Append(@, v)]

\* args[arg] as read by INSTR_ARG_LOAD; "SIGSEGV" stands for the NULL dereference
ReadArg(stk, args, arg, ub) ==
    IF args.null THEN [val |-> NoVal, err |-> "SIGSEGV"]
    ELSE IF args.epoch # stk.epoch /\ ub = "clobbered" THEN [val |-> Garbage, err |-> "OK"]
    ELSE IF args.epoch # stk.epoch /\ ub = "trap" THEN [val |-> NoVal, err |-> "SIGSEGV"]
    ELSE IF args.base + arg + 1 > Len(stk.ptr) THEN [val |-> Garbage, err |-> "OK"]
    ELSE [val |-> stk.ptr[args.base + arg + 1], err |-> "OK"]

EvRet(bs, stk, err) == [bs |-> bs, stk |-> stk, err |-> err]

\* Move the return value (top of stack) to where the arguments began
Collapse(stk, argidx) ==
    [stk EXCEPT !.ptr = Append(SubSeq(stk.ptr, 1, argidx), stk.ptr[Len(stk.ptr)])]

RECURSIVE mcode_eval_stk(_, _, _, _, _, _)
RECURSIVE ExecInstrs(_, _, _, _, _, _, _)

\* After an INSTR_ARG_LOAD read: push the value and go on
Loaded(r, bs, c, args, stk, i, ub, depth) ==
    IF r.err # "OK" THEN EvRet(bs, stk, r.err)
    ELSE ExecInstrs(bs, c, args, stk_push(stk, r.val), i + 1, ub, depth)

\* After the called block returned: move its value down and go on
Returned(r, c, args, argidx, i, ub, depth) ==
    IF r.err # "OK" THEN r
    ELSE ExecInstrs(r.bs, c, args, Collapse(r.stk, argidx), i + 1, ub, depth)

\* After the called function returned: its value is pushed above the arguments
Applied(r, bs, c, args, stk, argidx, i, ub, depth) ==
    IF r.err # "OK" THEN EvRet(bs, stk_push(stk, r.val), r.err)
    ELSE ExecInstrs(bs, c, args, Collapse(stk_push(stk, r.val), argidx), i + 1, ub, depth)

\* INSTR_CODE_CALL and INSTR_FUNC_CALL
ExecCall(instr, argidx, bs, c, args, stk, i, ub, depth) ==
    IF instr.arity < 0 THEN EvRet(bs, stk, "EVAL_ERR_INCOMPLETE_CODE")
    ELSE IF argidx < 0 THEN EvRet(bs, stk, "EVAL_ERR_MISSING_ARGS")
    ELSE IF instr.type = "CODE_CALL"
    THEN Returned(mcode_eval_stk(bs, instr.code, ArgsAt(argidx, stk.epoch), stk, ub,
                                 depth + 1),
                  c, args, argidx, i, ub, depth)
    ELSE Applied(ArithCall(instr.func, [k \in 1..instr.arity |-> stk.ptr[argidx + k]]),
                 bs, c, args, stk, argidx, i, ub, depth)

\* One instruction of the loop of mcode_eval_stk
ExecInstr(instr, bs, c, args, stk, i, ub, depth) ==
    CASE instr.type = "CONST_LOAD" ->
           ExecInstrs(bs, c, args, stk_push(stk, instr.value), i + 1, ub, depth)
      [] instr.type = "ARG_LOAD" ->
           Loaded(ReadArg(stk, args, instr.arg, ub), bs, c, args, stk, i, ub, depth)
      [] instr.type \in {"CODE_CALL", "FUNC_CALL"} ->
           ExecCall(instr, Len(stk.ptr) - instr.arity, bs, c, args, stk, i, ub, depth)
      [] OTHER -> EvRet(bs, stk, "EVAL_ERR_UNKNOWN_INSTR")

\* The instruction loop of mcode_eval_stk, from instruction i on
ExecInstrs(bs, c, args, stk, i, ub, depth) ==
    IF i > Len(bs[c].instrs) THEN EvRet(bs, stk, "OK")
    ELSE ExecInstr(bs[c].instrs[i], bs, c, args, stk, i, ub, depth)

\* The error of a run that started with `start` values on the stack
RunErr(start, r) ==
    IF r.err # "OK" THEN r.err
    ELSE IF Len(r.stk.ptr) > start + 1 THEN "EVAL_ERR_STACK_SURPLUS"
    ELSE IF Len(r.stk.ptr) <= start THEN "EVAL_ERR_UNDERFLOW"
    ELSE "OK"

\* The end of mcode_eval_stk: an arity-0 block caches value and error
Cache(c, r, err) ==
    IF err = "SIGSEGV" THEN EvRet(r.bs, r.stk, err)
    ELSE IF r.bs[c].arity = 0
    THEN EvRet([r.bs EXCEPT ![c].is_cached = TRUE,
                            ![c].err = err,
                            ![c].value = IF err = "OK" THEN r.stk.ptr[Len(r.stk.ptr)]
                                         ELSE NoVal],
               r.stk, err)
    ELSE EvRet(r.bs, r.stk, err)

Ran(c, start, r) == Cache(c, r, RunErr(start, r))

\* mcode_eval_stk: run block c on `stk`.  Recursion deeper than MaxCallDepth
\* stands for exhausting the C stack.
mcode_eval_stk(bs, c, args, stk, ub, depth) ==
    IF depth > MaxCallDepth THEN EvRet(bs, stk, "SIGSEGV")
    ELSE IF bs[c].is_cached THEN EvRet(bs, stk_push(stk, bs[c].value), bs[c].err)
    ELSE IF bs[c].stk_ht # 1 THEN EvRet(bs, stk, "EVAL_ERR_INCOMPLETE_CODE")
    ELSE Ran(c, Len(stk.ptr), ExecInstrs(bs, c, args, stk, 1, ub, depth))

Evaluated(r) ==
    [bs |-> r.bs, err |-> r.err, val |-> IF r.err = "OK" THEN r.stk.ptr[1] ELSE NoVal]

\* mcode_eval: value and error of block c called with `args` (NoArgs: NULL).
\* The value that accompanies an error is unspecified and reported as NoVal.
mcode_eval(bs, c, args, ub) ==
    IF bs[c].is_cached
    THEN [bs |-> bs, err |-> bs[c].err,
          val |-> IF bs[c].err = "OK" THEN bs[c].value ELSE NoVal]
    ELSE Evaluated(mcode_eval_stk(bs, c, args, NewStack, ub, 0))

(***************************************************************************)
(* Shunting yard (util/shunt.c).  `vals` is the block being filled, `ops`  *)
(* the operator stack (top last), `last` the class of the last token.      *)
(***************************************************************************)
Oper(ty, prio, ar, code, func) ==
    [type |-> ty, priority |-> prio, arity |-> ar, code |-> code, func |-> func]

shunt_new(code, try_eval) ==
    [try_eval |-> try_eval, last |-> "TOKEN_PARENTH", vals |-> code, ops |-> <<>>]

shunt_was_last_val(shn) == shn.last = "TOKEN_VALUE"

ShRet(bs, shn, err) == [bs |-> bs, shn |-> shn, err |-> err]

Pop(ops) == SubSeq(ops, 1, Len(ops) - 1)

\* displace_fixity: apply to the block the fixity operators above `thresh`;
\* fail is TRUE when an operator cannot be applied, and then ops is left as it was
RECURSIVE DisplaceFrom(_, _, _, _)
DisplaceFrom(bs, shn, thresh, n) ==
    IF n >= 1 /\ shn.ops[n].priority > thresh /\ shn.ops[n].type = "TOKEN_FIXITY"
    THEN LET r == mcode_call_func(bs, shn.vals, shn.ops[n].arity, shn.ops[n].func,
                                  shn.try_eval)
         IN  IF r.fail THEN [bs |-> r.bs, shn |-> shn, fail |-> TRUE]
             ELSE DisplaceFrom(r.bs, shn, thresh, n - 1)
    ELSE [bs |-> bs, shn |-> [shn EXCEPT !.ops = SubSeq(@, 1, n)], fail |-> FALSE]

displace_fixity(bs, shn, thresh) == DisplaceFrom(bs, shn, thresh, Len(shn.ops))

shunt_open_parenth(bs, shn) ==
    IF shn.last = "TOKEN_VALUE" THEN ShRet(bs, shn, "PARSE_ERR_VAR_CALL")
    ELSE ShRet(bs, [shn EXCEPT !.ops = Append(@, Oper("TOKEN_PARENTH", -1, 0, NULL, "")),
                               !.last = "TOKEN_PARENTH"], "OK")

\* Index of the first entry below the run of commas that ends at n
RECURSIVE BelowCommas(_, _)
BelowCommas(ops, n) ==
    IF n >= 1 /\ ops[n].type = "TOKEN_COMMA" THEN BelowCommas(ops, n - 1) ELSE n

\* shunt_close_parenth once the fixity operators are displaced: `par` is the
\* index of the entry below the commas on top of the operator stack
CloseAt(d, par) ==
    LET ops   == d.shn.ops
        arity == 1 + (Len(d.shn.ops) - par)
        top   == par - 1
    IN
    IF par < 1 \/ ops[par].type # "TOKEN_PARENTH"
    THEN ShRet(d.bs, [d.shn EXCEPT !.ops = SubSeq(ops, 1, par)], "PARSE_ERR_PARENTH_MISMATCH")
    ELSE IF top >= 1 /\ ops[top].type = "TOKEN_MCODE_FUNC"
    THEN LET bs1 == mcode_set_arity(d.bs, ops[top].code, arity) IN
         IF arity # mcode_get_arity(bs1, ops[top].code)
         THEN ShRet(bs1, d.shn, "PARSE_ERR_ARITY_MISMATCH")
         ELSE ShRet(mcode_call_code(bs1, d.shn.vals, ops[top].code).bs,
                    [d.shn EXCEPT !.ops = SubSeq(ops, 1, top - 1), !.last = "TOKEN_VALUE"],
                    "OK")
    ELSE IF top >= 1 /\ ops[top].type = "TOKEN_FUNC"
    THEN IF arity # ops[top].arity
         THEN ShRet(d.bs, d.shn, "PARSE_ERR_ARITY_MISMATCH")
         ELSE ShRet(mcode_call_func(d.bs, d.shn.vals, ops[top].arity, ops[top].func,
                                    d.shn.try_eval).bs,
                    [d.shn EXCEPT !.ops = SubSeq(ops, 1, top - 1), !.last = "TOKEN_VALUE"],
                    "OK")
    ELSE IF arity > 1 THEN ShRet(d.bs, d.shn, "PARSE_ERR_BAD_COMMA")
    ELSE ShRet(d.bs, [d.shn EXCEPT !.ops = SubSeq(ops, 1, top), !.last = "TOKEN_VALUE"], "OK")

CloseDisplaced(d) ==
    IF d.fail THEN ShRet(d.bs, d.shn, "PARSE_ERR_MISSING_VALUES")
    ELSE CloseAt(d, BelowCommas(d.shn.ops, Len(d.shn.ops)))

shunt_close_parenth(bs, shn) ==
    IF shn.last # "TOKEN_VALUE" THEN ShRet(bs, shn, "PARSE_ERR_MISSING_VALUES")
    ELSE CloseDisplaced(displace_fixity(bs, shn, -1))

CommaDisplaced(d) ==
    IF d.fail THEN ShRet(d.bs, d.shn, "PARSE_ERR_MISSING_VALUES")
    ELSE ShRet(d.bs, [d.shn EXCEPT !.ops = Append(@, Oper("TOKEN_COMMA", -1, 0, NULL, "")),
                                   !.last = "TOKEN_COMMA"], "OK")

shunt_put_comma(bs, shn) ==
    IF shn.last # "TOKEN_VALUE" THEN ShRet(bs, shn, "PARSE_ERR_MISSING_VALUES")
    ELSE CommaDisplaced(displace_fixity(bs, shn, -1))

\* A clear that accepts an open parenthesis left on the stack
LeftOver_accepts_parenth(ty) ==
    CASE ty = "TOKEN_PARENTH" -> "OK"
      [] ty = "TOKEN_COMMA" -> "PARSE_ERR_BAD_COMMA"
      [] OTHER -> "PARSE_ERR_FUNC_NOCALL"

\* The error shunt_clear gives for what is left on top of the operator stack
LeftOver(ty) ==
    CASE ty = "TOKEN_PARENTH" -> "PARSE_ERR_PARENTH_MISMATCH"
      [] ty = "TOKEN_COMMA" -> "PARSE_ERR_BAD_COMMA"
      [] OTHER -> "PARSE_ERR_FUNC_NOCALL"

\* A clear that does not look at whether the operators could be applied
ClearDisplaced_ignores_failure(d) ==
    IF Len(d.shn.ops) = 0 THEN ShRet(d.bs, d.shn, "OK")
    ELSE ShRet(d.bs, d.shn, LeftOver(d.shn.ops[Len(d.shn.ops)].type))

ClearDisplaced(d) ==
    IF d.fail THEN ShRet(d.bs, d.shn, "PARSE_ERR_MISSING_VALUES")
    ELSE IF Len(d.shn.ops) = 0 THEN ShRet(d.bs, d.shn, "OK")
    ELSE ShRet(d.bs, d.shn, LeftOver(d.shn.ops[Len(d.shn.ops)].type))

shunt_clear(bs, shn) == ClearDisplaced(displace_fixity(bs, shn, -1))

\* A unary operator that binds tighter than every binary operator
shunt_put_unary_binds_tightest(bs, shn, func, prec) ==
    IF shn.last = "TOKEN_VALUE" THEN ShRet(bs, shn, "PARSE_ERR_MISSING_OPERS")
    ELSE IF shn.last \in {"TOKEN_FUNC", "TOKEN_MCODE_FUNC"}
    THEN ShRet(bs, shn, "PARSE_ERR_FUNC_NOCALL")
    ELSE ShRet(bs, [shn EXCEPT !.ops = Append(@, Oper("TOKEN_FIXITY", 255, 1, NULL, func)),
                               !.last = "TOKEN_FIXITY"], "OK")

shunt_put_unary(bs, shn, func, prec) ==
    IF shn.last = "TOKEN_VALUE" THEN ShRet(bs, shn, "PARSE_ERR_MISSING_OPERS")
    ELSE IF shn.last \in {"TOKEN_FUNC", "TOKEN_MCODE_FUNC"}
    THEN ShRet(bs, shn, "PARSE_ERR_FUNC_NOCALL")
    ELSE IF shn.last = "TOKEN_FIXITY"
            /\ shn.ops[Len(shn.ops)].arity = 2
            /\ shn.ops[Len(shn.ops)].priority % 2 = 1
            /\ shn.ops[Len(shn.ops)].priority > prec * 2
    THEN ShRet(bs, shn, "PARSE_ERR_LOWPREC_UNARY")
    ELSE ShRet(bs, [shn EXCEPT !.ops = Append(@, Oper("TOKEN_FIXITY", prec * 2 + 1, 1,
                                                      NULL, func)),
                               !.last = "TOKEN_FIXITY"], "OK")

BinaryDisplaced(d, func, prec, left_assoc) ==
    IF d.fail THEN ShRet(d.bs, d.shn, "PARSE_ERR_MISSING_VALUES")
    ELSE ShRet(d.bs,
               [d.shn EXCEPT !.ops = Append(@, Oper("TOKEN_FIXITY",
                                                    prec * 2 + (IF left_assoc THEN 1 ELSE 0),
                                                    2, NULL, func)),
                             !.last = "TOKEN_FIXITY"], "OK")

\* A binary operator that displaces only operators of strictly higher precedence
shunt_put_binary_keeps_equal(bs, shn, func, prec, left_assoc) ==
    IF shn.last # "TOKEN_VALUE" THEN ShRet(bs, shn, "PARSE_ERR_MISSING_VALUES")
    ELSE BinaryDisplaced(displace_fixity(bs, shn, prec * 2 + 1), func, prec, left_assoc)

shunt_put_binary(bs, shn, func, prec, left_assoc) ==
    IF shn.last # "TOKEN_VALUE" THEN ShRet(bs, shn, "PARSE_ERR_MISSING_VALUES")
    ELSE BinaryDisplaced(displace_fixity(bs, shn, prec * 2), func, prec, left_assoc)

\* A check that lets a value follow a value
check_value_like_after_value(shn) ==
    IF shn.last \in {"TOKEN_FUNC", "TOKEN_MCODE_FUNC"} THEN "PARSE_ERR_FUNC_NOCALL"
    ELSE "OK"

\* check_value_like: the error a value-like token meets, "OK" if none
check_value_like(shn) ==
    IF shn.last \in {"TOKEN_FUNC", "TOKEN_MCODE_FUNC"} THEN "PARSE_ERR_FUNC_NOCALL"
    ELSE IF shn.last = "TOKEN_VALUE" THEN "PARSE_ERR_MISSING_OPERS"
    ELSE "OK"

shunt_func_call(bs, shn, arity, func) ==
    IF check_value_like(shn) # "OK" THEN ShRet(bs, shn, check_value_like(shn))
    ELSE ShRet(bs, [shn EXCEPT !.ops = Append(@, Oper("TOKEN_FUNC", -1, arity, NULL, func)),
                               !.last = "TOKEN_FUNC"], "OK")

shunt_code_call(bs, shn, callee) ==
    IF check_value_like(shn) # "OK" THEN ShRet(bs, shn, check_value_like(shn))
    ELSE IF mcode_get_arity(bs, callee) = 0 THEN ShRet(bs, shn, "PARSE_ERR_VAR_CALL")
    ELSE ShRet(bs, [shn EXCEPT !.ops = Append(@, Oper("TOKEN_MCODE_FUNC", -1, 0, callee, "")),
                               !.last = "TOKEN_MCODE_FUNC"], "OK")

shunt_load_arg(bs, shn, arg) ==
    IF check_value_like(shn) # "OK" THEN ShRet(bs, shn, check_value_like(shn))
    ELSE ShRet(mcode_load_arg(bs, shn.vals, arg).bs,
               [shn EXCEPT !.last = "TOKEN_VALUE"], "OK")

shunt_load_const(bs, shn, value) ==
    IF check_value_like(shn) # "OK" THEN ShRet(bs, shn, check_value_like(shn))
    ELSE ShRet(mcode_load_const(bs, shn.vals, value).bs,
               [shn EXCEPT !.last = "TOKEN_VALUE"], "OK")

shunt_load_var(bs, shn, var) ==
    IF check_value_like(shn) # "OK" THEN ShRet(bs, shn, check_value_like(shn))
    ELSE LET bs1 == mcode_set_arity(bs, var, 0) IN
         IF mcode_get_arity(bs1, var) # 0 THEN ShRet(bs1, shn, "PARSE_ERR_FUNC_NOCALL")
         ELSE ShRet(mcode_call_code(bs1, shn.vals, var).bs,
                    [shn EXCEPT !.last = "TOKEN_VALUE"], "OK")

(***************************************************************************)
(* Builtin registry (bltn.c)                                               *)
(***************************************************************************)
BltnOper(name, prec, assoc, is_unary, func) ==
    [name |-> name, prec |-> prec, assoc |-> assoc, is_unary |-> is_unary, func |-> func]

\* The operators of builtin_opers whose function the rational model covers
builtin_opers ==
    << BltnOper("-", 100, TRUE, TRUE, "arith_neg"),
       BltnOper("+", 64, TRUE, FALSE, "arith_add"),
       BltnOper("-", 64, TRUE, FALSE, "arith_sub"),
       BltnOper("*", 96, TRUE, FALSE, "arith_mul"),
       BltnOper("^", 112, FALSE, FALSE, "arith_pow") >>

\* The named builtins whose function the rational model covers
builtins == << [name |-> "abs", arity |-> 1, func |-> "arith_abs"] >>

NoBltn == [name |-> "", arity |-> -1, func |-> ""]
NoOper == BltnOper("", 0, FALSE, FALSE, "")

\* bltn_parse: the builtin named `name`, NoBltn if there is none
bltn_parse(name) ==
    IF \E i \in 1..Len(builtins) : builtins[i].name = name
    THEN builtins[CHOOSE i \in 1..Len(builtins) : builtins[i].name = name]
    ELSE NoBltn

\* bltn_oper_parse: the operator with this symbol in the unary or the binary tree
bltn_oper_parse(sym, is_unary) ==
    IF \E i \in 1..Len(builtin_opers) :
          builtin_opers[i].name = sym /\ builtin_opers[i].is_unary = is_unary
    THEN builtin_opers[CHOOSE i \in 1..Len(builtin_opers) :
          builtin_opers[i].name = sym /\ builtin_opers[i].is_unary = is_unary]
    ELSE NoOper

(***************************************************************************)
(* Namespace (nmsp.c)                                                      *)
(***************************************************************************)
\* struct var_s; `next` is implicit: the variable created just before
Var(name, code, has_impl, deps) ==
    [name |-> name, code |-> code, has_impl |-> has_impl, deps |-> deps, used_by |-> NULL]

\* nmsp_new
nmsp_new(eval_on_parse) ==
    [vars |-> <<>>, blocks |-> <<>>, redef |-> NULL, circ_root |-> NULL,
     try_eval |-> eval_on_parse]

\* nmsp_get: the first variable named key from the head of the list (the newest)
\* down; the empty key is not searchable
RECURSIVE GetFrom(_, _, _)
GetFrom(vars, n, key) ==
    IF n < 1 THEN NULL
    ELSE IF vars[n].name = key THEN n
    ELSE GetFrom(vars, n - 1, key)

nmsp_get(ns, key) ==
    IF key = "" THEN NULL ELSE GetFrom(ns.vars, Len(ns.vars), key)

\* The first variable from the head of the list that owns block c, NULL if none
RECURSIVE VarOfCodeFrom(_, _, _)
VarOfCodeFrom(vars, n, c) ==
    IF n < 1 THEN NULL
    ELSE IF vars[n].code = c THEN n
    ELSE VarOfCodeFrom(vars, n - 1, c)

VarOfCode(vars, c) == VarOfCodeFrom(vars, Len(vars), c)

\* var_calc_deps: the dependency list of v after the call (the old one is kept
\* when v has no implementation or a callee belongs to no variable)
var_calc_deps(vars, bs, v) ==
    IF ~v.has_impl THEN v.deps
    ELSE LET code_deps == mcode_deplist(bs, v.code)
             var_deps  == [i \in 1..Len(code_deps) |-> VarOfCode(vars, code_deps[i])]
         IN  IF \E i \in 1..Len(var_deps) : var_deps[i] = NULL THEN v.deps
             ELSE var_deps

\* place_var_unsafe: a new variable at the head of the list
place_var_unsafe(ns, key, code, isimpl) ==
    LET v0 == Var(key, code, isimpl, <<>>)
        v  == [v0 EXCEPT !.deps = var_calc_deps(ns.vars, ns.blocks, v0)]
    IN  [ns EXCEPT !.vars = Append(@, v)]

\* A put that hands back the variable already called key
nmsp_put_existing(ns, key) ==
    IF nmsp_get(ns, key) # NULL THEN [ns |-> ns, ret |-> nmsp_get(ns, key)]
    ELSE LET ns1 == [ns EXCEPT !.blocks = Append(@, mcode_new(-1))]
             ns2 == place_var_unsafe(ns1, key, Len(ns1.blocks), FALSE)
         IN  [ns |-> ns2, ret |-> Len(ns2.vars)]

\* nmsp_put: the namespace after the call and the returned variable
nmsp_put(ns, key) ==
    IF nmsp_get(ns, key) # NULL THEN [ns |-> ns, ret |-> NULL]
    ELSE LET ns1 == [ns EXCEPT !.blocks = Append(@, mcode_new(-1))]
             ns2 == place_var_unsafe(ns1, key, Len(ns1.blocks), FALSE)
         IN  [ns |-> ns2, ret |-> Len(ns2.vars)]

\* Set used_by of every variable listed in deps to `by`; `always` overrides a set one
RECURSIVE MarkUsedBy(_, _, _, _)
MarkUsedBy(vars, deps, by, always) ==
    IF deps = <<>> THEN vars
    ELSE LET d == Head(deps)
         IN  MarkUsedBy(IF always \/ vars[d].used_by = NULL
                        THEN [vars EXCEPT ![d].used_by = by] ELSE vars,
                        Tail(deps), by, always)

\* The loop of find_circ over the queue q.  `fuel` bounds the number of pops:
\* running out of it stands for a walk that does not end.
RECURSIVE CircLoop(_, _, _, _)
CircLoop(vars, q, start, fuel) ==
    IF q = <<>> THEN [vars |-> vars, found |-> FALSE, hang |-> FALSE]
    ELSE IF fuel = 0 THEN [vars |-> vars, found |-> FALSE, hang |-> TRUE]
    ELSE LET vr == Head(q) IN
         IF vr = start THEN [vars |-> vars, found |-> TRUE, hang |-> FALSE]
         ELSE CircLoop(MarkUsedBy(vars, vars[vr].deps, vr, FALSE),
                       Tail(q) \o vars[vr].deps, start, fuel - 1)

\* find_circ: breadth-first walk of the dependencies of `start`
find_circ(ns, start) ==
    LET cleared == [i \in 1..Len(ns.vars) |-> [ns.vars[i] EXCEPT !.used_by = NULL]]
        marked  == MarkUsedBy(cleared, cleared[start].deps, start, TRUE)
        r       == CircLoop(marked, cleared[start].deps, start, MaxQueueOps)
    IN  [ns    |-> [ns EXCEPT !.vars = r.vars,
                              !.circ_root = IF r.found THEN start ELSE NULL],
         found |-> r.found, hang |-> r.hang]

(***************************************************************************)
(* Expression parser (nmsp.c).  A token is a kind, a string and a number.  *)
(***************************************************************************)
Tok(t, str, n) == [t |-> t, s |-> str, n |-> n]
LP == Tok("(", "", 0)
RP == Tok(")", "", 0)
CM == Tok(",", "", 0)
NL == Tok("nl", "", 0)
Op(sym) == Tok("op", sym, 0)
Num(n) == Tok("num", "", n)
W(name) == Tok("word", name, 0)
\* A character that starts no token
Junk == Tok("junk", "=", 0)

\* parse_arg: index of the parameter called name, -1 if none
parse_arg(name, args) ==
    IF \E i \in 1..Len(args) : args[i] = name
    THEN (CHOOSE i \in 1..Len(args) :
             args[i] = name /\ \A j \in 1..(i - 1) : args[j] # name) - 1
    ELSE -1

\* A reference that never looks the name up and always declares a variable
parse_var_always_new(ns, name) ==
    LET ns1 == [ns EXCEPT !.blocks = Append(@, mcode_new(-1))]
        ns2 == place_var_unsafe(ns1, name, Len(ns1.blocks), FALSE)
    IN  [ns |-> ns2, ret |-> Len(ns2.vars)]

\* parse_var: the variable called name, created when it does not exist
parse_var(ns, name) ==
    IF nmsp_get(ns, name) # NULL THEN [ns |-> ns, ret |-> nmsp_get(ns, name)]
    ELSE nmsp_put(ns, name)

\* arith_parse of an integer literal
arith_parse(n) == Ratio(n, 1)

PSt(ns, shn, err, stop, depth) ==
    [ns |-> ns, shn |-> shn, err |-> err, stop |-> stop, depth |-> depth]

\* A shunting-yard result folded back into the parser state
AfterShunt(P, r, depth) ==
    PSt([P.ns EXCEPT !.blocks = r.bs], r.shn, r.err, r.err # "OK", depth)

\* One iteration of the token loop of mcode_parse; `nxt` is the token that
\* follows after whitespace (NL at the end of the text)
ParseTok(P, tok, nxt, args) ==
    LET bs == P.ns.blocks IN
    CASE tok.t = "nl" ->
           IF P.depth > 0 THEN P ELSE [P EXCEPT !.stop = TRUE]
      [] tok.t = "(" -> AfterShunt(P, shunt_open_parenth(bs, P.shn), P.depth + 1)
      [] tok.t = "," ->
           IF P.depth = 0 THEN [P EXCEPT !.err = "PARSE_ERR_BAD_COMMA", !.stop = TRUE]
           ELSE AfterShunt(P, shunt_put_comma(bs, P.shn), P.depth)
      [] tok.t = ")" -> AfterShunt(P, shunt_close_parenth(bs, P.shn), P.depth - 1)
      [] tok.t = "op" ->
           LET oper == bltn_oper_parse(tok.s, ~shunt_was_last_val(P.shn)) IN
           IF oper.name = "" THEN [P EXCEPT !.stop = TRUE]
           ELSE IF oper.is_unary
           THEN AfterShunt(P, shunt_put_unary(bs, P.shn, oper.func, oper.prec), P.depth)
           ELSE AfterShunt(P, shunt_put_binary(bs, P.shn, oper.func, oper.prec, oper.assoc),
                           P.depth)
      [] tok.t = "num" ->
           AfterShunt(P, shunt_load_const(bs, P.shn, arith_parse(tok.n)), P.depth)
      [] tok.t = "word" ->
           IF parse_arg(tok.s, args) >= 0
           THEN AfterShunt(P, shunt_load_arg(bs, P.shn, parse_arg(tok.s, args)), P.depth)
           ELSE IF bltn_parse(tok.s).name # ""
           THEN LET bltn == bltn_parse(tok.s) IN
                IF bltn.arity = 0
                THEN AfterShunt(P, shunt_load_const(bs, P.shn,
                                                    ArithCall(bltn.func, <<>>).val), P.depth)
                ELSE AfterShunt(P, shunt_func_call(bs, P.shn, bltn.arity, bltn.func),
                                P.depth)
           ELSE LET pv  == parse_var(P.ns, tok.s)
                    P1  == [P EXCEPT !.ns = pv.ns]
                    cd  == pv.ns.vars[pv.ret].code
                IN  IF nxt.t = "("
                    THEN AfterShunt(P1, shunt_code_call(pv.ns.blocks, P.shn, cd), P.depth)
                    ELSE AfterShunt(P1, shunt_load_var(pv.ns.blocks, P.shn, cd), P.depth)
      [] OTHER -> [P EXCEPT !.stop = TRUE]

\* The token that follows position i once whitespace is skipped: a newline is
\* whitespace only inside parentheses
RECURSIVE NextTok(_, _, _)
NextTok(toks, i, depth) ==
    IF i > Len(toks) THEN NL
    ELSE IF toks[i].t = "nl" /\ depth > 0 THEN NextTok(toks, i + 1, depth)
    ELSE toks[i]

RECURSIVE ParseLoop(_, _, _, _)
ParseLoop(P, toks, i, args) ==
    IF i > Len(toks) \/ P.stop THEN P
    ELSE ParseLoop(ParseTok(P, toks[i], NextTok(toks, i + 1, P.depth), args),
                   toks, i + 1, args)

\* mcode_parse: fill block `code` from the tokens; the namespace after the
\* call (variables the text refers to are created) and the parse error
Cleared(P, r) == [ns |-> [P.ns EXCEPT !.blocks = r.bs], err |-> r.err]

Parsed(P) ==
    IF P.err # "OK" THEN [ns |-> P.ns, err |-> P.err]
    ELSE Cleared(P, shunt_clear(P.ns.blocks, P.shn))

mcode_parse(ns, code, toks, args) ==
    Parsed(ParseLoop(PSt(ns, shunt_new(code, ns.try_eval), "OK", FALSE, 0), toks, 1, args))

\* A definition text: label, parameter names (empty for a plain variable) and
\* the tokens of the expression; lbl = "" when the text has no label
Def(lbl, params, toks) == [lbl |-> lbl, params |-> params, toks |-> toks]

DefRet(ns, err, ret) == [ns |-> ns, err |-> err, ret |-> ret]

\* The end of nmsp_define for an existing variable, given the cycle check
Checked(fc, oldvar, code) ==
    IF fc.hang THEN DefRet(fc.ns, "HANG", NULL)
    ELSE IF fc.found
    THEN DefRet([fc.ns EXCEPT !.blocks = mcode_reset(@, code),
                              !.vars[oldvar].has_impl = FALSE],
                "INSERT_ERR_CIRC", NULL)
    ELSE DefRet(fc.ns, "OK", oldvar)

\* Attach the parsed block to the existing variable and look for a cycle
Attach(ns, oldvar, code) ==
    LET v1 == [ns.vars[oldvar] EXCEPT !.has_impl = TRUE]
    IN  Checked(find_circ([ns EXCEPT !.vars[oldvar] =
                              [v1 EXCEPT !.deps = var_calc_deps(ns.vars, ns.blocks, v1)]],
                          oldvar),
                oldvar, code)

Placed(ns1) == DefRet(ns1, "OK", Len(ns1.vars))

\* "Insert Expression": p is what mcode_parse returned
Insert(p, inp, oldvar, code) ==
    IF p.err # "OK" THEN DefRet(p.ns, p.err, NULL)
    ELSE IF oldvar # NULL THEN Attach(p.ns, oldvar, code)
    ELSE Placed(place_var_unsafe(p.ns, inp.lbl, code, TRUE))

\* A define that does not look at has_impl and parses over an implemented variable
DefineVar_redefines(ns, inp, oldvar) ==
    IF oldvar # NULL /\ mcode_get_arity(ns.blocks, ns.vars[oldvar].code) # Len(inp.params)
    THEN DefRet(ns, "PARSE_ERR_ARITY_MISMATCH", NULL)
    ELSE IF oldvar # NULL
    THEN Insert(mcode_parse([ns EXCEPT !.blocks = mcode_set_arity(@, ns.vars[oldvar].code,
                                                                  Len(inp.params))],
                            ns.vars[oldvar].code, inp.toks, inp.params),
                inp, oldvar, ns.vars[oldvar].code)
    ELSE Insert(mcode_parse([ns EXCEPT !.blocks = Append(@, mcode_new(Len(inp.params)))],
                            Len(ns.blocks) + 1, inp.toks, inp.params),
                inp, NULL, Len(ns.blocks) + 1)

\* "Check for Existing Variable" and "Parse Expression"
DefineVar(ns, inp, oldvar) ==
    IF oldvar # NULL /\ ns.vars[oldvar].has_impl
    THEN DefRet([ns EXCEPT !.redef = oldvar], "INSERT_ERR_REDEF", NULL)
    ELSE IF oldvar # NULL /\ mcode_get_arity(ns.blocks, ns.vars[oldvar].code) # Len(inp.params)
    THEN DefRet(ns, "PARSE_ERR_ARITY_MISMATCH", NULL)
    ELSE IF oldvar # NULL
    THEN Insert(mcode_parse([ns EXCEPT !.blocks = mcode_set_arity(@, ns.vars[oldvar].code,
                                                                  Len(inp.params))],
                            ns.vars[oldvar].code, inp.toks, inp.params),
                inp, oldvar, ns.vars[oldvar].code)
    ELSE Insert(mcode_parse([ns EXCEPT !.blocks = Append(@, mcode_new(Len(inp.params)))],
                            Len(ns.blocks) + 1, inp.toks, inp.params),
                inp, NULL, Len(ns.blocks) + 1)

\* nmsp_define: the namespace after the call, the error stored in *errp and
\* the returned variable.  "HANG" stands for a cycle check that does not end.
nmsp_define(ns, inp) == DefineVar(ns, inp, nmsp_get(ns, inp.lbl))

\* nmsp_var_value: value and error of a variable; the evaluation fills caches
VarValue(ns, r) == [ns |-> [ns EXCEPT !.blocks = r.bs], err |-> r.err, val |-> r.val]

nmsp_var_value(ns, vr, ub) ==
    IF ns.vars[vr].has_impl
    THEN VarValue(ns, mcode_eval(ns.blocks, ns.vars[vr].code, NoArgs, ub))
    ELSE [ns |-> ns, err |-> "EVAL_ERR_INCOMPLETE_CODE", val |-> NoVal]

\* A format_redef that prints the root of the last cycle instead
nmsp_strredef_circ(ns) ==
    IF ns.circ_root = NULL THEN "" ELSE ns.vars[ns.circ_root].name

\* nmsp_strredef: the name of the variable recorded by the last redefinition
nmsp_strredef(ns) == ns.vars[ns.redef].name

\* nmsp_strcirc: the names along the used_by chain from circ_root, closed by
\* the root again (the separators " <- " are left out)
RECURSIVE CircChain(_, _, _)
CircChain(ns, crc, fuel) ==
    IF fuel = 0 \/ crc = NULL THEN <<>>
    ELSE LET nxt == ns.vars[crc].used_by
         IN  IF nxt = ns.circ_root THEN <<ns.vars[crc].name, ns.vars[nxt].name>>
             ELSE <<ns.vars[crc].name>> \o CircChain(ns, nxt, fuel - 1)

nmsp_strcirc(ns) == CircChain(ns, ns.circ_root, Len(ns.vars) + 1)

(***************************************************************************)
(* Definition texts fed to the namespace.  A well-formed expression is     *)
(* given as a tree and written out as tokens by Ser, with every compound   *)
(* operand in parentheses; a malformed one is given as its tokens.         *)
(***************************************************************************)
ENum(n) == <<"num", n>>
ERef(name) == <<"ref", name>>
ENeg(e) == <<"neg", e>>
EBin(op, l, r) == <<"bin", op, l, r>>
ECall(f, es) == <<"call", f, es>>
EEmpty == <<"empty">>
NoAst == <<"none">>

RECURSIVE Ser(_)
RECURSIVE SerArgs(_)
Operand(e) == IF e[1] \in {"bin", "neg"} THEN <<LP>> \o Ser(e) \o <<RP>> ELSE Ser(e)
Ser(e) ==
    CASE e[1] = "num" -> <<Num(e[2])>>
      [] e[1] = "ref" -> <<W(e[2])>>
      [] e[1] = "neg" -> <<Op("-")>> \o Operand(e[2])
      [] e[1] = "bin" -> Operand(e[3]) \o <<Op(e[2])>> \o Operand(e[4])
      [] e[1] = "call" -> <<W(e[2]), LP>> \o SerArgs(e[3]) \o <<RP>>
      [] OTHER -> <<>>
SerArgs(es) ==
    IF Len(es) = 0 THEN <<>>
    ELSE IF Len(es) = 1 THEN Ser(es[1])
    ELSE Ser(es[1]) \o <<CM>> \o SerArgs(Tail(es))

WF(lbl, params, ast) == [lbl |-> lbl, params |-> params, toks |-> Ser(ast), ast |-> ast]
Raw(lbl, params, toks) == [lbl |-> lbl, params |-> params, toks |-> toks, ast |-> NoAst]

\* n + (n+1 + (... + (DeepLast - 1 + DeepLast))): DeepLast constants side by side
\* on the value stack when nothing is folded
DeepLast == 7
RECURSIVE DeepSum(_)
DeepSum(n) == IF n >= DeepLast THEN ENum(n) ELSE EBin("+", ENum(n), DeepSum(n + 1))

Texts ==
    << WF("a", <<>>, ENum(1)),                                         \* a: 1
       WF("a", <<>>, EBin("+", ERef("b"), ENum(1))),                   \* a: b + 1
       WF("b", <<>>, ERef("a")),                                       \* b: a
       WF("b", <<>>, ENum(2)),                                         \* b: 2
       WF("a", <<>>, EBin("+", ERef("a"), ENum(1))),                   \* a: a + 1
       WF("f", <<"x", "y">>, EBin("-", ERef("x"), ERef("y"))),         \* f(x, y): x - y
       WF("a", <<>>, ECall("f", <<ENum(7), ECall("f", <<ENum(5), ENum(2)>>)>>)),
                                                                       \* a: f(7, f(5, 2))
       Raw("b", <<>>, <<Num(1), Op("+")>>),                            \* b: 1 +
       WF("b", <<>>, EEmpty),                                          \* b:
       WF("a", <<>>, EBin("*", ENeg(ECall("abs", <<EBin("-", ENum(1), ENum(3))>>)),
                               ERef("b"))),                            \* a: (-abs(1 - 3)) * b
       WF("f", <<"x", "y">>, EBin("*", ERef("x"), ERef("b"))),         \* f(x, y): x * b
       WF("b", <<>>, ECall("f", <<ENum(1)>>)),                         \* b: f(1)
       WF("", <<>>, EBin("+", ERef("a"), ERef("b"))),                  \* a + b
       WF("f", <<"x", "y">>, EBin("-", DeepSum(1), ERef("y"))),
                                       \* f(x, y): (1 + (2 + (3 + (4 + (5 + (6 + 7)))))) - y
       WF("a", <<>>, ECall("f", <<ENum(1), ERef("b")>>)),              \* a: f(1, b)
       WF("f", <<"x", "y">>, ECall("f", <<ERef("x")>>)),               \* f(x, y): f(x)
       WF("b", <<>>, ECall("abs", <<ENum(1), ENum(2)>>)),              \* b: abs(1, 2)
       Raw("b", <<>>, <<W("a"), Op("+")>>)                             \* b: a +
    >>

Names == {"a", "b", "f"}

(***************************************************************************)
(* Prefix tree (util/ptree.c)                                              *)
(***************************************************************************)
\* struct ptree_s: a node holds the last character of its word, the target of
\* the word (NULL: the node has no word), its next sibling and its first child
Node(c) == [c |-> c, target |-> NULL, next |-> NULL, child |-> NULL]

\* ptree_new: the caller's root pointer is NULL; nodes is the heap
ptree_new == [nodes |-> <<>>, root |-> NULL]

\* A ptree_t *: the address of the caller's root pointer, or of the next or
\* child field of a node
RootLoc == [kind |-> "root", node |-> NULL]
FieldLoc(kind, nd) == [kind |-> kind, node |-> nd]

\* *loc
Deref(pt, loc) ==
    IF loc.kind = "root" THEN pt.root
    ELSE IF loc.kind = "next" THEN pt.nodes[loc.node].next
    ELSE pt.nodes[loc.node].child

\* *loc = nd
Store(pt, loc, nd) ==
    IF loc.kind = "root" THEN [pt EXCEPT !.root = nd]
    ELSE IF loc.kind = "next" THEN [pt EXCEPT !.nodes[loc.node].next = nd]
    ELSE [pt EXCEPT !.nodes[loc.node].child = nd]

\* "Check if current letter exists in tree": walk the siblings from *loc
RECURSIVE SiblingLoc(_, _, _)
SiblingLoc(pt, loc, ch) ==
    IF Deref(pt, loc) = NULL \/ pt.nodes[Deref(pt, loc)].c = ch THEN loc
    ELSE SiblingLoc(pt, FieldLoc("next", Deref(pt, loc)), ch)

\* "Descend to child if not the root node": if(loc != pt) loc = &((*loc)->child)
Descend(pt, loc) ==
    IF loc # RootLoc THEN FieldLoc("child", Deref(pt, loc)) ELSE loc

\* "If no node found, make new node for character"
WithNode(pt, loc, ch) ==
    IF Deref(pt, loc) # NULL THEN pt
    ELSE Store([pt EXCEPT !.nodes = Append(@, Node(ch))], loc, Len(pt.nodes) + 1)

PutAt(pt, loc, ch) == [pt |-> WithNode(pt, loc, ch), loc |-> loc]

\* One round of the loop of ptree_putn
PutChar(st, ch) == PutAt(st.pt, SiblingLoc(st.pt, Descend(st.pt, st.loc), ch), ch)

RECURSIVE PutLoop(_, _)
PutLoop(st, word) ==
    IF word = <<>> THEN st
    ELSE PutLoop(PutChar(st, Head(word)), Tail(word))

\* (*loc)->target = tgt
SetTarget(st, tgt) == [st.pt EXCEPT !.nodes[Deref(st.pt, st.loc)].target = tgt]

\* ptree_put(pt, word, tgt), that is ptree_putn with n = -1
ptree_put(pt, word, tgt) ==
    IF word = <<>> THEN [pt |-> pt, ok |-> FALSE]
    ELSE [pt |-> SetTarget(PutLoop([pt |-> pt, loc |-> RootLoc], word), tgt),
          ok |-> TRUE]

\* "Find character": for(; pt; pt = pt->next) if(pt->c == *str) break
RECURSIVE FindChar(_, _, _)
FindChar(pt, nd, ch) ==
    IF nd = NULL THEN NULL
    ELSE IF pt.nodes[nd].c = ch THEN nd
    ELSE FindChar(pt, pt.nodes[nd].next, ch)

\* *endptr is written only when a word is matched
Unset == -1

\* The target found and the number of characters before *endptr
GetRet(tgt, end) == [tgt |-> tgt, end |-> end]

\* The loop of ptree_getn from character i on, nd being the first sibling
RECURSIVE GetLoop(_, _, _, _, _)
RECURSIVE GetAt(_, _, _, _, _)
GetLoop(pt, nd, str, i, got) ==
    IF i > Len(str) THEN got
    ELSE GetAt(pt, FindChar(pt, nd, str[i]), str, i, got)

GetAt(pt, nd, str, i, got) ==
    IF nd = NULL THEN got
    ELSE GetLoop(pt, pt.nodes[nd].child, str, i + 1,
                 IF pt.nodes[nd].target # NULL THEN GetRet(pt.nodes[nd].target, i)
                 ELSE got)

\* ptree_get(pt, str, endptr), that is ptree_getn with n = -1
ptree_get(pt, str) == GetLoop(pt, pt.root, str, 1, GetRet(NULL, Unset))

(***************************************************************************)
(* State                                                                   *)
(***************************************************************************)
VARIABLES
    nmsp,   \* the namespace: variables, heap of code blocks, redef, circ_root, try_eval
    last,   \* the last API call and what it returned
    hist,   \* the API calls made so far
    acc,    \* for each name, the text whose define was accepted (0: none)
    blk,    \* a heap of code blocks driven through the code block functions alone
    shu,    \* a shunting yard driven through the functions of util/shunt.c alone
    tree,   \* a prefix tree driven through ptree_put and ptree_get
    ari     \* operands drawn for the arithmetic functions and what they returned

vars == <<nmsp, last, hist, acc, blk, shu, tree, ari>>

\* What the calls on a namespace leave alone
aux == <<blk, shu, tree, ari>>

\* No shunting yard is being driven
NoShu == [bs |-> <<>>, shn |-> shunt_new(NULL, FALSE), toks |-> <<>>, err |-> "OK",
          done |-> FALSE]

\* No block is being driven
NoBlk == [bs |-> <<>>, try_eval |-> FALSE, op |-> "none", arg |-> 0, fail |-> FALSE,
          err |-> "OK", val |-> NoVal, n |-> 0, failed |-> FALSE]

\* No prefix tree is being driven
NoTree == [pt |-> ptree_new, puts |-> <<>>, op |-> "none", str |-> <<>>, tgt |-> NULL,
           end |-> Unset, ok |-> FALSE]

\* No arithmetic function is being applied and no literal is being read
NoAri == [a |-> NoVal, b |-> NoVal, c |-> NoVal, op |-> "none", ret |-> NoVal,
          err |-> "OK", alt |-> NoVal, str |-> <<>>, pos |-> 0, vals |-> <<>>]

NoCall == [op |-> "none", arg |-> 0, err |-> "OK", ret |-> NULL, val |-> NoVal]
Call(op, arg, err, ret, val) == [op |-> op, arg |-> arg, err |-> err, ret |-> ret, val |-> val]

\* The process is gone after a crash and stuck in a walk that does not end
Dead == last.err \in {"SIGSEGV", "HANG"}

Init ==
    /\ nmsp \in {nmsp_new(TRUE), nmsp_new(FALSE)}
    /\ last = NoCall
    /\ hist = <<>>
    /\ acc = [n \in Names |-> 0]
    /\ blk = NoBlk
    /\ shu = NoShu
    /\ tree = NoTree
    /\ ari = NoAri

CanCall == ~Dead /\ Len(hist) < MaxCalls

\* nmsp_define on text k
Defined(k, r) ==
    /\ nmsp' = r.ns
    /\ last' = Call("define", k, r.err, r.ret, NoVal)
    /\ acc' = IF r.err = "OK" /\ Texts[k].lbl # ""
              THEN [acc EXCEPT ![Texts[k].lbl] = k] ELSE acc

Define(k) ==
    /\ CanCall
    /\ Defined(k, nmsp_define(nmsp, Texts[k]))
    /\ hist' = Append(hist, [op |-> "define", arg |-> k])
    /\ UNCHANGED aux

NameIdx == <<"a", "b", "f">>

\* nmsp_put on the name NameIdx[i]
WasPut(i, r) ==
    /\ nmsp' = r.ns
    /\ last' = Call("put", i, "OK", r.ret, NoVal)

Put(i) ==
    /\ CanCall
    /\ WasPut(i, nmsp_put(nmsp, NameIdx[i]))
    /\ hist' = Append(hist, [op |-> "put", arg |-> i])
    /\ UNCHANGED <<acc, aux>>

\* The variables a caller can hold: found by nmsp_get or returned by the last call
Held == ({nmsp_get(nmsp, n) : n \in Names} \cup {last.ret}) \ {NULL}

\* nmsp_var_value on a held variable
Valued(v, r) ==
    /\ nmsp' = r.ns
    /\ last' = Call("value", v, r.err, v, r.val)

Value(v) ==
    /\ CanCall
    /\ \E ub \in UBOutcomes : Valued(v, nmsp_var_value(nmsp, v, ub))
    /\ hist' = Append(hist, [op |-> "value", arg |-> v])
    /\ UNCHANGED <<acc, aux>>

Next ==
    \/ \E k \in 1..Len(Texts) : Define(k)
    \/ \E i \in 1..Len(NameIdx) : Put(i)
    \/ \E v \in Held : Value(v)

Spec == Init /\ [][Next]_vars

(***************************************************************************)
(* What an expression denotes.  A reference to a parameter is its          *)
(* argument; a reference to a name is the value of the expression accepted *)
(* for that name; a call binds the parameters of the accepted definition   *)
(* to the values of the arguments, by position.  `ac` maps each name to    *)
(* its accepted text.  Anything else, and a chain of references longer     *)
(* than RefFuel, has no value.                                             *)
(***************************************************************************)
RefFuel == 6

RefOk(v) == [err |-> "OK", val |-> v]
RefErr == [err |-> "NO_VALUE", val |-> NoVal]

RefBin(op, l, r) ==
    CASE op = "+" -> arith_add(<<l, r>>).val
      [] op = "-" -> arith_sub(<<l, r>>).val
      [] op = "*" -> arith_mul(<<l, r>>).val

RECURSIVE RefVal(_, _, _, _, _)
RefVal(ac, e, params, args, fuel) ==
    IF fuel = 0 THEN RefErr
    ELSE CASE e[1] = "num" -> RefOk(Ratio(e[2], 1))
      [] e[1] = "ref" ->
           IF parse_arg(e[2], params) >= 0 THEN RefOk(args[parse_arg(e[2], params) + 1])
           ELSE IF e[2] \in Names /\ ac[e[2]] # 0 /\ Texts[ac[e[2]]].params = <<>>
           THEN RefVal(ac, Texts[ac[e[2]]].ast, <<>>, <<>>, fuel - 1)
           ELSE RefErr
      [] e[1] = "neg" ->
           LET r == RefVal(ac, e[2], params, args, fuel)
           IN  IF r.err # "OK" THEN RefErr ELSE RefOk(arith_neg(<<r.val>>).val)
      [] e[1] = "bin" ->
           LET l == RefVal(ac, e[3], params, args, fuel)
               r == RefVal(ac, e[4], params, args, fuel)
           IN  IF l.err # "OK" \/ r.err # "OK" THEN RefErr
               ELSE RefOk(RefBin(e[2], l.val, r.val))
      [] e[1] = "call" ->
           LET rs == [i \in 1..Len(e[3]) |-> RefVal(ac, e[3][i], params, args, fuel)]
               vs == [i \in 1..Len(e[3]) |-> rs[i].val]
           IN  IF \E i \in 1..Len(rs) : rs[i].err # "OK" THEN RefErr
               ELSE IF e[2] = "abs" /\ Len(vs) = 1 THEN RefOk(arith_abs(vs).val)
               ELSE IF /\ e[2] \in Names
                       /\ ac[e[2]] # 0
                       /\ Len(vs) > 0
                       /\ Len(Texts[ac[e[2]]].params) = Len(vs)
               THEN RefVal(ac, Texts[ac[e[2]]].ast, Texts[ac[e[2]]].params, vs, fuel - 1)
               ELSE RefErr
      [] OTHER -> RefErr

\* The names an expression uses, each with the number of arguments it is used
\* with (0: as a plain value); parameters and builtins are not names
RECURSIVE Uses(_, _)
Uses(e, params) ==
    CASE e[1] = "ref" -> IF parse_arg(e[2], params) >= 0 THEN {} ELSE {<<e[2], 0>>}
      [] e[1] = "neg" -> Uses(e[2], params)
      [] e[1] = "bin" -> Uses(e[3], params) \cup Uses(e[4], params)
      [] e[1] = "call" ->
           (IF bltn_parse(e[2]) # NoBltn THEN {} ELSE {<<e[2], Len(e[3])>>})
           \cup UNION {Uses(e[3][i], params) : i \in 1..Len(e[3])}
      [] OTHER -> {}

UsesOf(k) == Uses(Texts[k].ast, Texts[k].params)

\* The names that the accepted definition of n refers to
RefsOf(ac, n) == IF ac[n] = 0 THEN {} ELSE {u[1] : u \in UsesOf(ac[n])} \cap Names

\* The names reachable from the names in S through accepted definitions
RECURSIVE Reach(_, _, _)
Reach(ac, S, fuel) ==
    LET T == S \cup UNION {RefsOf(ac, n) : n \in S}
    IN  IF fuel = 0 \/ T = S THEN S ELSE Reach(ac, T, fuel - 1)

DependsOnSelf(ac, n) == n \in Reach(ac, RefsOf(ac, n), Cardinality(Names))

\* The variable `value` was last called on, as a name it can be looked up by
LastValueOf(x) == last.op = "value" /\ last.arg = nmsp_get(nmsp, x)

\* C1: after define("x: E") returned no error, value(get("x")) returns the value
\* of E in the namespace, and an error exactly when E has no value there.
C1_ValueIsExpressionValue ==
    \A x \in Names :
        (LastValueOf(x) /\ acc[x] # 0 /\ Texts[acc[x]].params = <<>>)
        => LET r == RefVal(acc, Texts[acc[x]].ast, <<>>, <<>>, RefFuel)
           IN  /\ (last.err = "OK") <=> (r.err = "OK")
               /\ r.err = "OK" => last.val = r.val

\* C2: no definition is ever accepted that makes its variable depend on itself,
\* directly or through the definitions accepted for other variables.
C2_NoSelfDependencyAccepted ==
    \A x \in Names : acc[x] # 0 => ~DependsOnSelf(acc, x)

\* The define call of the step just taken: its text and the variable its label named
DefinedText == Texts[last'.arg]
Target == nmsp_get(nmsp, DefinedText.lbl)
BlockOf(ns, v) == ns.blocks[ns.vars[v].code]

\* C3: when define returns CircularDependency the target is unimplemented with
\* an empty block, and every variable that existed has the block (the target
\* aside), arity, implemented flag and dependency list it had before the call.
C3_CycleLeavesNamespaceAsBefore ==
    [][(last'.op = "define" /\ last'.err = "INSERT_ERR_CIRC")
       => /\ Target # NULL
          /\ ~nmsp'.vars[Target].has_impl
          /\ BlockOf(nmsp', Target).instrs = <<>>
          /\ \A v \in 1..Len(nmsp.vars) :
               /\ nmsp'.vars[v].code = nmsp.vars[v].code
               /\ v # Target => BlockOf(nmsp', v) = BlockOf(nmsp, v)
               /\ BlockOf(nmsp', v).arity = BlockOf(nmsp, v).arity
               /\ nmsp'.vars[v].has_impl = nmsp.vars[v].has_impl
               /\ nmsp'.vars[v].deps = nmsp.vars[v].deps]_vars

\* C4: define on a label whose variable is implemented returns Redefinition,
\* format_redef then gives that label, and no variable and no block (cached
\* value included) is changed by the call.
C4_RedefinitionRejected ==
    [][(last'.op = "define" /\ Target # NULL /\ nmsp.vars[Target].has_impl)
       => /\ last'.err = "INSERT_ERR_REDEF"
          /\ last'.ret = NULL
          /\ nmsp_strredef(nmsp') = DefinedText.lbl
          /\ nmsp'.vars = nmsp.vars
          /\ nmsp'.blocks = nmsp.blocks]_vars

\* A redefinition was rejected for a variable holding a cached value, and
\* format_redef names it
C4_Witness ==
    /\ last.op = "define"
    /\ last.err = "INSERT_ERR_REDEF"
    /\ nmsp_strredef(nmsp) = Texts[last.arg].lbl
    /\ BlockOf(nmsp, nmsp.redef).is_cached
    /\ BlockOf(nmsp, nmsp.redef).value = Ratio(1, 1)

ParseErrs ==
    {"PARSE_ERR_PARENTH_MISMATCH", "PARSE_ERR_ARITY_MISMATCH", "PARSE_ERR_BAD_COMMA",
     "PARSE_ERR_MISSING_VALUES", "PARSE_ERR_MISSING_OPERS", "PARSE_ERR_VAR_CALL",
     "PARSE_ERR_FUNC_NOCALL", "PARSE_ERR_LOWPREC_UNARY", "PARSE_ERR_EXTRA_CONT"}

\* C5: after a define that failed with a parse error, the block of the
\* labelled variable, if there is such a variable, holds no instruction.
C5_ParseErrorDiscardsBlock ==
    (/\ last.op = "define"
     /\ last.err \in ParseErrs
     /\ nmsp_get(nmsp, Texts[last.arg].lbl) # NULL)
    => BlockOf(nmsp, nmsp_get(nmsp, Texts[last.arg].lbl)).instrs = <<>>

\* The text accepted for name x is a call of a user function whose accepted
\* definition takes as many parameters as the call has arguments
IsUserCall(x) ==
    /\ acc[x] # 0
    /\ Texts[acc[x]].params = <<>>
    /\ Texts[acc[x]].ast[1] = "call"
    /\ Texts[acc[x]].ast[2] \in Names
    /\ acc[Texts[acc[x]].ast[2]] # 0
    /\ Len(Texts[acc[Texts[acc[x]].ast[2]]].params) = Len(Texts[acc[x]].ast[3])

\* C6: the value of a variable defined as a call f(e1, ..., en) of a user
\* function f(p1, ..., pn): B is the value of B with each pi bound to the
\* value of ei, whichever of the two was defined first.
C6_CallBindsParameters ==
    \A x \in Names :
        (LastValueOf(x) /\ IsUserCall(x)
         /\ RefVal(acc, Texts[acc[x]].ast, <<>>, <<>>, RefFuel).err = "OK")
        => /\ last.err = "OK"
           /\ last.val = RefVal(acc, Texts[acc[x]].ast, <<>>, <<>>, RefFuel).val

(***************************************************************************)
(* Replaying a sequence of define and put calls on a namespace             *)
(***************************************************************************)
RECURSIVE Replay(_, _, _)
Replay(ns, h, ok) ==
    IF h = <<>> THEN [ns |-> ns, ok |-> ok]
    ELSE IF Head(h).op = "define"
    THEN LET r == nmsp_define(ns, Texts[Head(h).arg])
         IN  Replay(r.ns, Tail(h), ok /\ r.err = "OK")
    ELSE Replay(nmsp_put(ns, NameIdx[Head(h).arg]).ns, Tail(h), ok)

\* Error and value that nmsp_var_value gives for the variable called x
ValueOf(ns, x, ub) ==
    IF nmsp_get(ns, x) = NULL THEN <<"NO_VARIABLE", NoVal>>
    ELSE LET r == nmsp_var_value(ns, nmsp_get(ns, x), ub) IN <<r.err, r.val>>

Perms(n) == {p \in [1..n -> 1..n] : \A i, j \in 1..n : p[i] = p[j] => i = j}

\* The calls of builtin functions in an expression, each with its number of arguments
RECURSIVE BltnUses(_)
BltnUses(e) ==
    CASE e[1] = "neg" -> BltnUses(e[2])
      [] e[1] = "bin" -> BltnUses(e[3]) \cup BltnUses(e[4])
      [] e[1] = "call" ->
           (IF bltn_parse(e[2]) = NoBltn THEN {} ELSE {<<e[2], Len(e[3])>>})
           \cup UNION {BltnUses(e[3][i]) : i \in 1..Len(e[3])}
      [] OTHER -> {}

\* The calls so far are defines of well-formed texts with distinct labels; every
\* use of a label of the set agrees in arity with its definition, all uses of
\* one name agree in arity and every builtin is called with the arguments it
\* takes; no label depends on itself
HistLabels == {Texts[hist[i].arg].lbl : i \in 1..Len(hist)}
HistAcc == [n \in Names |->
              IF \E i \in 1..Len(hist) : Texts[hist[i].arg].lbl = n
              THEN hist[CHOOSE i \in 1..Len(hist) : Texts[hist[i].arg].lbl = n].arg
              ELSE 0]
ConsistentAcyclicSet ==
    /\ hist # <<>>
    /\ \A i \in 1..Len(hist) :
         /\ hist[i].op = "define"
         /\ Texts[hist[i].arg].lbl \in Names
         /\ Texts[hist[i].arg].ast # NoAst
    /\ Cardinality(HistLabels) = Len(hist)
    /\ \A i \in 1..Len(hist) : \A u \in UsesOf(hist[i].arg) :
         /\ (u[1] \in HistLabels) => Len(Texts[HistAcc[u[1]]].params) = u[2]
         /\ \A j \in 1..Len(hist) : \A w \in UsesOf(hist[j].arg) :
              u[1] = w[1] => u[2] = w[2]
    /\ \A i \in 1..Len(hist) : \A u \in BltnUses(Texts[hist[i].arg].ast) :
         bltn_parse(u[1]).arity = u[2]
    /\ \A n \in HistLabels : ~DependsOnSelf(HistAcc, n)

\* C7: for a consistent, acyclic set of definitions with distinct labels, the
\* define calls succeed in every order, and in every order each variable of
\* the set ends with the same value and error.
C7_OrderIndependent ==
    ConsistentAcyclicSet
    => \A p \in Perms(Len(hist)) :
         LET R == Replay(nmsp_new(nmsp.try_eval), [i \in 1..Len(hist) |-> hist[p[i]]], TRUE)
         IN  /\ R.ok
             /\ \A n \in HistLabels : \A ub \in UBOutcomes :
                  ValueOf(R.ns, n, ub) = ValueOf(nmsp, n, ub)

\* Three definitions, each using the label of the one that follows it, and
\* the first variable has a value
C7_Witness ==
    /\ ConsistentAcyclicSet
    /\ Len(hist) = 3
    /\ {u[1] : u \in UsesOf(hist[1].arg)} = {Texts[hist[2].arg].lbl}
    /\ {u[1] : u \in UsesOf(hist[2].arg)} = {Texts[hist[3].arg].lbl}
    /\ ValueOf(nmsp, Texts[hist[1].arg].lbl, "intact")[1] = "OK"

EvalErrs ==
    {"EVAL_ERR_MISSING_ARGS", "EVAL_ERR_UNKNOWN_INSTR", "EVAL_ERR_STACK_SURPLUS",
     "EVAL_ERR_UNDERFLOW", "EVAL_ERR_INCOMPLETE_CODE"}

\* C8: value on a variable whose arity is greater than 0 returns one of the
\* evaluation errors (reading an argument slot that is not there is a fault).
C8_FunctionValueIsDefinedFailure ==
    (last.op = "value" /\ BlockOf(nmsp, last.arg).arity > 0) => last.err \in EvalErrs

\* The put call of the step just taken was for a name that already existed
PutOnExisting == last'.op = "put" /\ nmsp_get(nmsp, NameIdx[last'.arg]) # NULL

\* C9 as stated: put on an existing name returns the existing variable and
\* creates no variable.
C9_PutReturnsExisting ==
    [][PutOnExisting
       => /\ last'.ret = nmsp_get(nmsp, NameIdx[last'.arg])
          /\ Len(nmsp'.vars) = Len(nmsp.vars)]_vars

\* C9: put on an existing name returns no variable and leaves the namespace
\* as it was.
C9_PutOnExistingReturnsNull ==
    [][PutOnExisting => (last'.ret = NULL /\ nmsp' = nmsp)]_vars

\* put was called on a name that an accepted definition had created
C9_Witness ==
    /\ last.op = "put"
    /\ last.ret = NULL
    /\ acc[NameIdx[last.arg]] # 0
    /\ nmsp_get(nmsp, NameIdx[last.arg]) # NULL

\* C10: after the same define and put calls, a namespace that folds constants
\* while parsing and one that does not give the same value and error for
\* every variable.
C10_EvalOnParseEquivalent ==
    (\A i \in 1..Len(hist) : hist[i].op # "value")
    => LET O == Replay(nmsp_new(~nmsp.try_eval), hist, TRUE).ns
       IN  /\ Len(O.vars) = Len(nmsp.vars)
           /\ \A v \in 1..Len(nmsp.vars) : \A ub \in UBOutcomes :
                LET r == nmsp_var_value(nmsp, v, ub)
                    o == nmsp_var_value(O, v, ub)
                IN  r.err = o.err /\ r.val = o.val

\* The names the text of the define call just made refers to
DefinedRefs == {u[1] : u \in UsesOf(last'.arg)} \cap Names

\* In the step just taken, n directly depends on m: through the text the call
\* tried to define when n is its label, through its accepted definition otherwise
DirectlyDepends(n, m) ==
    IF n = DefinedText.lbl THEN m \in DefinedRefs ELSE m \in RefsOf(acc, n)

CycleNames == nmsp_strcirc(nmsp')

\* C12: after define returned CircularDependency, the names given by
\* format_cycle start and end with the label of the rejected definition, and
\* every name directly depends on the name before it.
C12_CycleChainFollowsDependencies ==
    [][(last'.op = "define" /\ last'.err = "INSERT_ERR_CIRC")
       => /\ Len(CycleNames) >= 2
          /\ CycleNames[1] = DefinedText.lbl
          /\ CycleNames[Len(CycleNames)] = DefinedText.lbl
          /\ \A i \in 2..Len(CycleNames) :
               DirectlyDepends(CycleNames[i], CycleNames[i - 1])]_vars

\* The argument count the namespace holds for a name, -1 when none is fixed
KnownArity(ns, name) ==
    IF nmsp_get(ns, name) = NULL THEN -1 ELSE BlockOf(ns, nmsp_get(ns, name)).arity

\* The names of text k with their argument counts: every use, and the label
\* with its number of parameters
CountsOf(k) ==
    UsesOf(k) \cup (IF Texts[k].lbl = "" THEN {} ELSE {<<Texts[k].lbl, Len(Texts[k].params)>>})

\* Text k gives some function a different argument count than the namespace
\* holds for it, than another place of the text does, or than the builtin takes
CountDisagrees(ns, k) ==
    \/ \E u \in CountsOf(k) : KnownArity(ns, u[1]) >= 0 /\ KnownArity(ns, u[1]) # u[2]
    \/ \E u, w \in CountsOf(k) : u[1] = w[1] /\ u[2] # w[2]
    \/ \E u \in BltnUses(Texts[k].ast) : bltn_parse(u[1]).arity # u[2]

\* C13: a define (of a label that is not implemented yet) whose text disagrees
\* on the argument count of a function with an earlier call or definition, with
\* itself or with a builtin is rejected with ArityMismatch, and an accepted
\* define leaves every name it uses with the argument count of the use.
C13_ArgumentCountConsistent ==
    [][(/\ last'.op = "define"
        /\ Texts[last'.arg].ast # NoAst
        /\ ~(Target # NULL /\ nmsp.vars[Target].has_impl))
       => /\ CountDisagrees(nmsp, last'.arg) => last'.err = "PARSE_ERR_ARITY_MISMATCH"
          /\ last'.err = "OK"
               => \A u \in CountsOf(last'.arg) : KnownArity(nmsp', u[1]) = u[2]]_vars

(***************************************************************************)
(* A code block driven through the functions of util/mcode.c alone.  Block *)
(* 1 of the heap is the block the calls act on; block 2 is a complete      *)
(* block of arity 1 and block 3 a block of undetermined arity, both used   *)
(* as callees.                                                             *)
(***************************************************************************)
\* Number of calls on the block in one behaviour
MaxCodeCalls == 4

\* The block the calls act on
Code == 1

\* A complete block of arity 1 that returns its argument
Identity == [mcode_new(1) EXCEPT !.instrs = <<Instr("ARG_LOAD", 0, 0, NoVal, NULL, "")>>,
                                 !.stk_ht = 1]

Callees == {2, 3}

\* The functions handed to mcode_call_func, each with its number of arguments
Funcs == {<<"arith_neg", 1>>, <<"arith_add", 2>>, <<"arith_func_fails", 1>>}

CodeInit ==
    /\ \E a \in -1..1 : \E te \in BOOLEAN :
         blk = [NoBlk EXCEPT !.bs = <<mcode_new(a), Identity, mcode_new(-1)>>,
                             !.try_eval = te]
    /\ nmsp = nmsp_new(FALSE)
    /\ last = NoCall
    /\ hist = <<>>
    /\ acc = [n \in Names |-> 0]
    /\ shu = NoShu
    /\ tree = NoTree
    /\ ari = NoAri

CodeCanCall == blk.n < MaxCodeCalls /\ blk.err # "SIGSEGV"

\* The cache of block c holds the error of a failed function
CachedArithErr(bs, c) == bs[c].is_cached /\ bs[c].err = ArithErr

\* The state after a call op(arg) that returned r.fail.  `failed` records that
\* the block is a failure literal: an immediate evaluation by mcode_call_func
\* failed (the one call that changes the block and returns true) and the
\* cached error is still there.
Appended(op, arg, r) ==
    blk' = [blk EXCEPT !.bs = r.bs, !.op = op, !.arg = arg, !.fail = r.fail,
                       !.err = "OK", !.val = NoVal, !.n = @ + 1,
                       !.failed = IF r.fail /\ r.bs # blk.bs THEN TRUE
                                  ELSE blk.failed /\ CachedArithErr(r.bs, Code)]

\* mcode_load_const
LoadConst(v) ==
    /\ CodeCanCall
    /\ Appended("load_const", v.num, mcode_load_const(blk.bs, Code, v))
    /\ UNCHANGED <<nmsp, last, hist, acc, shu, tree, ari>>

\* mcode_load_arg
LoadArg(i) ==
    /\ CodeCanCall
    /\ Appended("load_arg", i, mcode_load_arg(blk.bs, Code, i))
    /\ UNCHANGED <<nmsp, last, hist, acc, shu, tree, ari>>

\* mcode_call_func
CallFunc(f) ==
    /\ CodeCanCall
    /\ Appended("call_func", f[2], mcode_call_func(blk.bs, Code, f[2], f[1], blk.try_eval))
    /\ UNCHANGED <<nmsp, last, hist, acc, shu, tree, ari>>

\* mcode_call_code
CallCode(callee) ==
    /\ CodeCanCall
    /\ Appended("call_code", callee, mcode_call_code(blk.bs, Code, callee))
    /\ UNCHANGED <<nmsp, last, hist, acc, shu, tree, ari>>

\* mcode_set_arity
SetArity(a) ==
    /\ CodeCanCall
    /\ Appended("set_arity", a, McRet(mcode_set_arity(blk.bs, Code, a), FALSE))
    /\ UNCHANGED <<nmsp, last, hist, acc, shu, tree, ari>>

\* mcode_reset
Reset ==
    /\ CodeCanCall
    /\ blk' = [blk EXCEPT !.bs = mcode_reset(blk.bs, Code), !.op = "reset", !.arg = 0,
                          !.fail = FALSE,
                          !.err = "OK", !.val = NoVal, !.n = @ + 1, !.failed = FALSE]
    /\ UNCHANGED <<nmsp, last, hist, acc, shu, tree, ari>>

\* mcode_eval without arguments
Evald(r) ==
    blk' = [blk EXCEPT !.bs = r.bs, !.op = "eval", !.arg = 0, !.fail = FALSE, !.err = r.err,
                       !.val = r.val, !.n = @ + 1]

Eval ==
    /\ CodeCanCall
    /\ \E ub \in UBOutcomes : Evald(mcode_eval(blk.bs, Code, NoArgs, ub))
    /\ UNCHANGED <<nmsp, last, hist, acc, shu, tree, ari>>

CodeNext ==
    \/ LoadConst(Ratio(1, 1))
    \/ \E i \in 0..2 : LoadArg(i)
    \/ \E f \in Funcs : CallFunc(f)
    \/ \E callee \in Callees : CallCode(callee)
    \/ \E a \in 1..2 : SetArity(a)
    \/ Reset
    \/ Eval

SpecCode == CodeInit /\ [][CodeNext]_vars

Appends == {"load_const", "load_arg", "call_func", "call_code"}

\* C11: once an immediate evaluation inside call_func has failed, every
\* evaluation of the block returns that error and leaves the block alone, and
\* every later append is refused and leaves the cached error in place.
C11_FailedLiteralPersists ==
    [][blk.failed
       => /\ blk'.op = "eval" => (blk'.err = ArithErr /\ blk'.bs = blk.bs)
          /\ blk'.op \in Appends => (blk'.fail /\ CachedArithErr(blk'.bs, Code))]_vars

\* C19: load_arg(i) on a block whose arity is set and not above i fails and
\* leaves the block alone, and no block with a set arity holds an ARG_LOAD
\* whose index is not below that arity.
C19_ArgIndexBelowArity ==
    [][/\ (blk'.op = "load_arg" /\ blk.bs[Code].arity >= 0
              /\ blk'.arg >= blk.bs[Code].arity)
          => (blk'.fail /\ blk'.bs = blk.bs)
       /\ \A c \in DOMAIN blk'.bs :
            blk'.bs[c].arity >= 0
              => \A i \in 1..Len(blk'.bs[c].instrs) :
                   blk'.bs[c].instrs[i].type = "ARG_LOAD"
                     => blk'.bs[c].instrs[i].arg < blk'.bs[c].arity]_vars

\* The height left on the stack by the instructions, counted from scratch:
\* each load adds one value, each call takes its arguments and adds one
RECURSIVE Recomputed(_)
Recomputed(instrs) ==
    IF instrs = <<>> THEN 0
    ELSE LET h == Head(instrs)
         IN  (IF h.type \in {"CONST_LOAD", "ARG_LOAD"} THEN 1 ELSE 1 - h.arity)
             + Recomputed(Tail(instrs))

\* C20: in every block the tracked stack height equals the height recomputed
\* over its instructions, after constant folding and after reset as well; a
\* block that evaluates without error therefore recomputes to 1.
C20_HeightMatchesInstructions ==
    /\ \A c \in DOMAIN blk.bs : blk.bs[c].stk_ht = Recomputed(blk.bs[c].instrs)
    /\ (blk.op = "eval" /\ blk.err = "OK") => Recomputed(blk.bs[Code].instrs) = 1

\* Two constants folded into one by an immediate evaluation of arith_add
C20_Witness_FoldedCall ==
    /\ blk.op = "call_func"
    /\ blk.arg = 2
    /\ blk.try_eval
    /\ ~blk.fail
    /\ Len(blk.bs[Code].instrs) = 1
    /\ blk.bs[Code].instrs[1].type = "CONST_LOAD"
    /\ blk.bs[Code].instrs[1].value = Ratio(2, 1)
    /\ blk.bs[Code].stk_ht = 1

(***************************************************************************)
(* A shunting yard driven through the functions of util/shunt.c alone, one *)
(* call for each token of an expression as the token loop of mcode_parse   *)
(* makes them, and shunt_clear at the end.  Block 1 of the heap is the     *)
(* block being filled, with one parameter x; block 2 is the block of a     *)
(* user name g that nothing has defined or called yet.                     *)
(***************************************************************************)
\* Number of tokens of one expression
MaxToks == 5

\* The block being filled and the block of the user name g
Vals == 1
Callee == 2

\* The operators of the table that are put on the yard
ShuntOpers == {builtin_opers[i] : i \in {j \in 1..Len(builtin_opers) :
                                            builtin_opers[j].name \in {"-", "^"}}}
UnaryOpers == {o \in ShuntOpers : o.is_unary}
BinaryOpers == {o \in ShuntOpers : ~o.is_unary}

ShuntInit ==
    /\ \E te \in BOOLEAN :
         shu = [NoShu EXCEPT !.bs = <<mcode_new(1), mcode_new(-1)>>,
                             !.shn = shunt_new(Vals, te)]
    /\ nmsp = nmsp_new(FALSE)
    /\ last = NoCall
    /\ hist = <<>>
    /\ acc = [n \in Names |-> 0]
    /\ blk = NoBlk
    /\ tree = NoTree
    /\ ari = NoAri

\* mcode_parse leaves its loop at the first error
ShuntCanCall == ~shu.done /\ Len(shu.toks) < MaxToks

\* The state after the call for token tok returned r
Shunted(tok, r) ==
    shu' = [shu EXCEPT !.bs = r.bs, !.shn = r.shn, !.toks = Append(@, tok),
                       !.err = r.err, !.done = r.err # "OK"]

\* shunt_open_parenth
OpenParenth ==
    /\ ShuntCanCall
    /\ Shunted("(", shunt_open_parenth(shu.bs, shu.shn))
    /\ UNCHANGED <<nmsp, last, hist, acc, blk, tree, ari>>

\* shunt_close_parenth
CloseParenth ==
    /\ ShuntCanCall
    /\ Shunted(")", shunt_close_parenth(shu.bs, shu.shn))
    /\ UNCHANGED <<nmsp, last, hist, acc, blk, tree, ari>>

\* shunt_put_comma
PutComma ==
    /\ ShuntCanCall
    /\ Shunted(",", shunt_put_comma(shu.bs, shu.shn))
    /\ UNCHANGED <<nmsp, last, hist, acc, blk, tree, ari>>

\* shunt_put_unary with an operator of the table
PutUnary(o) ==
    /\ ShuntCanCall
    /\ Shunted(o.func, shunt_put_unary(shu.bs, shu.shn, o.func, o.prec))
    /\ UNCHANGED <<nmsp, last, hist, acc, blk, tree, ari>>

\* shunt_put_binary with an operator of the table
PutBinary(o) ==
    /\ ShuntCanCall
    /\ Shunted(o.func, shunt_put_binary(shu.bs, shu.shn, o.func, o.prec, o.assoc))
    /\ UNCHANGED <<nmsp, last, hist, acc, blk, tree, ari>>

\* shunt_load_const of the constant 2
ShuntConst ==
    /\ ShuntCanCall
    /\ Shunted("const", shunt_load_const(shu.bs, shu.shn, arith_parse(2)))
    /\ UNCHANGED <<nmsp, last, hist, acc, blk, tree, ari>>

\* shunt_load_arg of the parameter x
ShuntArg ==
    /\ ShuntCanCall
    /\ Shunted("arg", shunt_load_arg(shu.bs, shu.shn, 0))
    /\ UNCHANGED <<nmsp, last, hist, acc, blk, tree, ari>>

\* shunt_func_call of the builtin abs
ShuntFunc ==
    /\ ShuntCanCall
    /\ Shunted("abs", shunt_func_call(shu.bs, shu.shn, bltn_parse("abs").arity,
                                      bltn_parse("abs").func))
    /\ UNCHANGED <<nmsp, last, hist, acc, blk, tree, ari>>

\* shunt_code_call of g: the name is followed by an open parenthesis
ShuntCall ==
    /\ ShuntCanCall
    /\ Shunted("g_call", shunt_code_call(shu.bs, shu.shn, Callee))
    /\ UNCHANGED <<nmsp, last, hist, acc, blk, tree, ari>>

\* shunt_load_var of g
ShuntVar ==
    /\ ShuntCanCall
    /\ Shunted("g_var", shunt_load_var(shu.bs, shu.shn, Callee))
    /\ UNCHANGED <<nmsp, last, hist, acc, blk, tree, ari>>

\* shunt_clear at the end of the expression
ShuntCleared(r) ==
    shu' = [shu EXCEPT !.bs = r.bs, !.shn = r.shn, !.toks = Append(@, "end"),
                       !.err = r.err, !.done = TRUE]

ShuntClear ==
    /\ ~shu.done
    /\ ShuntCleared(shunt_clear(shu.bs, shu.shn))
    /\ UNCHANGED <<nmsp, last, hist, acc, blk, tree, ari>>

ShuntNext ==
    \/ OpenParenth
    \/ CloseParenth
    \/ PutComma
    \/ \E o \in UnaryOpers : PutUnary(o)
    \/ \E o \in BinaryOpers : PutBinary(o)
    \/ ShuntConst
    \/ ShuntArg
    \/ ShuntFunc
    \/ ShuntCall
    \/ ShuntVar
    \/ ShuntClear

SpecShunt == ShuntInit /\ [][ShuntNext]_vars

\* The expression was put whole and shunt_clear returned no error
ParsedOk == shu.done /\ shu.err = "OK"

\* What an instruction does, by name
InstrName(ins) ==
    CASE ins.type = "CONST_LOAD" -> "const"
      [] ins.type = "ARG_LOAD" -> "arg"
      [] ins.type = "CODE_CALL" -> "g"
      [] OTHER -> ins.func

\* The instructions emitted into the block being filled
Emitted(bs) == [i \in 1..Len(bs[Vals].instrs) |-> InstrName(bs[Vals].instrs[i])]

\* The calls made for the expression -x^2 with the operators of the table
NegXPow2 ==
    <<bltn_oper_parse("-", TRUE).func, "arg", bltn_oper_parse("^", FALSE).func, "const", "end">>

\* C14 as stated: -x^2 is parsed as (-x)^2, the negation is applied to x
\* before the power.
C14_NegationBeforePower ==
    (ParsedOk /\ shu.toks = NegXPow2)
    => Emitted(shu.bs) = <<"arg", "arith_neg", "const", "arith_pow">>

\* C14: -x^2 is parsed as -(x^2): the power is applied to x and 2, and the
\* negation to its result.
C14_PowerBeforeNegation ==
    (ParsedOk /\ shu.toks = NegXPow2)
    => Emitted(shu.bs) = <<"arg", "const", "arith_pow", "arith_neg">>

\* -x^2 was put and cleared without error
C14_Witness_NegXPow2Parsed == ParsedOk /\ shu.toks = NegXPow2

\* The top of the operator stack, an operator that is none when it is empty
TopOper(shn) == IF shn.ops = <<>> THEN Oper("none", -1, 0, NULL, "") ELSE shn.ops[Len(shn.ops)]

\* The step just taken put the binary operator o after a value, on a stack
\* whose top is a binary operator of the same precedence
PutOnSamePrec(o) ==
    /\ shu'.toks = Append(shu.toks, o.func)
    /\ shu.shn.last = "TOKEN_VALUE"
    /\ TopOper(shu.shn).type = "TOKEN_FIXITY"
    /\ TopOper(shu.shn).arity = 2
    /\ TopOper(shu.shn).priority \div 2 = o.prec

SubChain == <<"arg", "arith_sub", "arg", "arith_sub", "arg", "end">>
PowChain == <<"arg", "arith_pow", "arg", "arith_pow", "arg", "end">>

\* C15: a binary operator put on a stack whose top is a binary operator of the
\* same precedence takes its place and has it emitted when the top is
\* left-associative, and goes above it, nothing emitted, when it is
\* right-associative; x - x - x is emitted as (x - x) - x and x ^ x ^ x as
\* x ^ (x ^ x).
C15_AssociativityByPriority ==
    [][/\ \A o \in BinaryOpers :
            PutOnSamePrec(o)
            => /\ shu'.err = "OK"
               /\ TopOper(shu.shn).priority % 2 = 1
                    => /\ Len(shu'.shn.ops) = Len(shu.shn.ops)
                       /\ shu'.bs[Vals].stk_ht = shu.bs[Vals].stk_ht - 1
                       /\ ~shu.shn.try_eval
                            => Emitted(shu'.bs)
                                 = Append(Emitted(shu.bs), TopOper(shu.shn).func)
               /\ TopOper(shu.shn).priority % 2 = 0
                    => /\ Pop(shu'.shn.ops) = shu.shn.ops
                       /\ shu'.bs = shu.bs
       /\ (shu'.done /\ shu'.err = "OK" /\ shu'.toks = SubChain)
            => Emitted(shu'.bs) = <<"arg", "arg", "arith_sub", "arg", "arith_sub">>
       /\ (shu'.done /\ shu'.err = "OK" /\ shu'.toks = PowChain)
            => Emitted(shu'.bs) = <<"arg", "arg", "arg", "arith_pow", "arith_pow">>]_vars

\* x ^ x ^ x was put and cleared without error
C15_Witness_PowChainParsed == ParsedOk /\ shu.toks = PowChain

\* Tokens by what they are in an expression
UnaryToks == {o.func : o \in UnaryOpers}
BinaryToks == {o.func : o \in BinaryOpers}
ValueLike == {"const", "arg", "g_var", "g_call", "abs"}
ValueEnd == {"const", "arg", "g_var", ")"}
ValueStart == ValueLike \cup {"("} \cup UnaryToks

\* Some operator of the expression has no operand on one of its sides
LacksOperand(toks) ==
    \E i \in 1..Len(toks) :
        \/ toks[i] \in BinaryToks /\ (i = 1 \/ toks[i - 1] \notin ValueEnd)
        \/ toks[i] \in BinaryToks \cup UnaryToks
             /\ (i = Len(toks) \/ toks[i + 1] \notin ValueStart)

LastTok(toks) == toks[Len(toks)]

\* The step just taken made the call for token tok
PutTok(tok) == shu'.toks # shu.toks /\ LastTok(shu'.toks) = tok

\* The operator on top of the stack takes more values than the block holds
TopLacksValues ==
    /\ TopOper(shu.shn).type = "TOKEN_FIXITY"
    /\ TopOper(shu.shn).arity > shu.bs[Vals].stk_ht

\* C16: a binary operator put when the last token is not a value fails with
\* MissingValues and changes nothing; a call that displaces an operator which
\* finds fewer values on the block than its arity fails with MissingValues;
\* and no expression in which an operator lacks an operand is parsed without
\* error.
C16_MissingOperandsRejected ==
    [][/\ \A o \in BinaryOpers :
            /\ (PutTok(o.func) /\ shu.shn.last # "TOKEN_VALUE")
                 => (shu'.err = "PARSE_ERR_MISSING_VALUES" /\ shu'.bs = shu.bs
                       /\ shu'.shn = shu.shn)
            /\ (PutTok(o.func) /\ TopLacksValues /\ TopOper(shu.shn).priority > o.prec * 2)
                 => shu'.err = "PARSE_ERR_MISSING_VALUES"
       /\ \A tok \in {")", ",", "end"} :
            (PutTok(tok) /\ TopLacksValues) => shu'.err = "PARSE_ERR_MISSING_VALUES"
       /\ (shu'.done /\ LacksOperand(shu'.toks)) => shu'.err # "OK"]_vars

\* x - ^ : the power is put right after the minus
C16_Witness_BinaryAfterOperator ==
    /\ shu.done
    /\ shu.err = "PARSE_ERR_MISSING_VALUES"
    /\ shu.toks = <<"arg", "arith_sub", "arith_pow">>

\* Two values stand side by side in the expression
AdjacentValues(toks) ==
    \E i \in 1..(Len(toks) - 1) : toks[i] \in ValueEnd /\ toks[i + 1] \in ValueLike

\* C17: a constant, argument, variable, builtin function or user function put
\* when the last token is a value fails with MissingOpers and leaves every
\* block as it was, and no expression with two adjacent values is parsed
\* without error.
C17_AdjacentValuesRejected ==
    [][/\ \A tok \in ValueLike :
            (PutTok(tok) /\ shu.shn.last = "TOKEN_VALUE")
            => (shu'.err = "PARSE_ERR_MISSING_OPERS" /\ shu'.bs = shu.bs)
       /\ (shu'.done /\ AdjacentValues(shu'.toks)) => shu'.err # "OK"]_vars

\* (x) g: a variable right after a closed parenthesis
C17_Witness_ValueAfterValue ==
    /\ shu.done
    /\ shu.err = "PARSE_ERR_MISSING_OPERS"
    /\ shu.toks = <<"(", "arg", ")", "g_var">>

\* Number of open parentheses less the number of closing ones
RECURSIVE Depth(_)
Depth(toks) ==
    IF toks = <<>> THEN 0
    ELSE Depth(Pop(toks)) + (CASE LastTok(toks) = "(" -> 1
                               [] LastTok(toks) = ")" -> -1
                               [] OTHER -> 0)

\* Every closing parenthesis has its open parenthesis and none is left open
Balanced(toks) ==
    /\ Depth(toks) = 0
    /\ \A i \in 1..Len(toks) : Depth(SubSeq(toks, 1, i)) >= 0

HasParenth(ops) == \E i \in 1..Len(ops) : ops[i].type = "TOKEN_PARENTH"

\* The topmost open parenthesis of the stack has no comma above it
NoCommaAboveParenth(ops) ==
    \E i \in 1..Len(ops) :
        /\ ops[i].type = "TOKEN_PARENTH"
        /\ \A j \in (i + 1)..Len(ops) : ops[j].type \notin {"TOKEN_PARENTH", "TOKEN_COMMA"}

\* A closing parenthesis after a value with no open parenthesis on the stack
\* returns ParenthMismatch, and no expression with unbalanced parentheses is
\* parsed without error
UnbalancedRejected ==
    /\ (PutTok(")") /\ shu.shn.last = "TOKEN_VALUE" /\ ~HasParenth(shu.shn.ops))
         => shu'.err = "PARSE_ERR_PARENTH_MISMATCH"
    /\ (shu'.done /\ ~Balanced(shu'.toks)) => shu'.err # "OK"

C21_ArityFixedOnceSet ==
    [][\A c \in DOMAIN blk.bs :
         blk.bs[c].arity >= 0 => blk'.bs[c].arity = blk.bs[c].arity]_vars

\* A set_arity with another value was called on a block whose arity was
\* determined, and the arity is still the old one
C21_Witness_SecondSetIgnored ==
    /\ blk.op = "set_arity"
    /\ blk.bs[Code].arity >= 0
    /\ blk.arg # blk.bs[Code].arity

\* ---------------------------------------------------------------------------
\* Stored constants (mcode_load_const), checked under SpecCode

\* The positions of the CONST_LOAD instructions of a block; each one stores
\* its own value (struct instr_s.value)
ConstLoads(b) == {i \in 1..Len(b.instrs) : b.instrs[i].type = "CONST_LOAD"}

\* C22: in every block the values stored for the CONST_LOAD instructions are
\* pairwise distinct, so that a literal loaded several times is stored once.
C22_StoredConstantsDistinct ==
    \A c \in DOMAIN blk.bs :
      \A i, j \in ConstLoads(blk.bs[c]) :
        i # j => blk.bs[c].instrs[i].value # blk.bs[c].instrs[j].value

\* ---------------------------------------------------------------------------
\* Order of the checks of nmsp_define, checked under Spec

\* The errors of nmsp_define that are not errors of the parse
InsertErrs == {"INSERT_ERR_REDEF", "INSERT_ERR_CIRC"}

\* C23: a define whose expression is syntactically invalid returns a parse
\* error, never Redef or CircularDependency, also when its label names an
\* implemented variable; Redef and CircularDependency are returned only for
\* expressions that parse.
C23_ParseErrorBeforeInsertError ==
    [][(last'.op = "define" /\ DefinedText.ast = NoAst)
       => (last'.err # "OK" /\ last'.err \notin InsertErrs)]_vars

\* ---------------------------------------------------------------------------
\* The prefix tree driven through ptree_put and ptree_get

MaxPuts == 3
MaxWord == 2

Chars == {"a", "b"}
Payloads == {1, 2}

\* The character strings of at most n characters
StrsUpTo(n) == UNION {[1..k -> Chars] : k \in 0..n}

TreeInit ==
    /\ tree = NoTree
    /\ nmsp = nmsp_new(FALSE)
    /\ last = NoCall
    /\ hist = <<>>
    /\ acc = [n \in Names |-> 0]
    /\ blk = NoBlk
    /\ shu = NoShu
    /\ ari = NoAri

\* ptree_put: an accepted pair is recorded in puts
TreePutDone(word, tgt, r) ==
    tree' = [tree EXCEPT !.pt = r.pt, !.op = "put", !.str = word, !.tgt = tgt,
                         !.end = Unset, !.ok = r.ok,
                         !.puts = IF r.ok THEN Append(@, <<word, tgt>>) ELSE @]

TreePut(word, tgt) ==
    /\ Len(tree.puts) < MaxPuts
    /\ TreePutDone(word, tgt, ptree_put(tree.pt, word, tgt))
    /\ UNCHANGED <<nmsp, last, hist, acc, blk, shu, ari>>

\* ptree_get
TreeGetDone(str, r) ==
    tree' = [tree EXCEPT !.op = "get", !.str = str, !.tgt = r.tgt, !.end = r.end,
                         !.ok = r.tgt # NULL]

TreeGet(str) ==
    /\ TreeGetDone(str, ptree_get(tree.pt, str))
    /\ UNCHANGED <<nmsp, last, hist, acc, blk, shu, ari>>

TreeNext ==
    \/ \E word \in StrsUpTo(MaxWord) : \E tgt \in Payloads : TreePut(word, tgt)
    \/ \E str \in StrsUpTo(MaxWord + 1) : TreeGet(str)

SpecTree == TreeInit /\ [][TreeNext]_vars

\* The lengths of the inserted tokens that are a prefix of str
PrefixLens(puts, str) ==
    {k \in 1..Len(str) : \E i \in 1..Len(puts) : puts[i][1] = SubSeq(str, 1, k)}

Longest(ks) == CHOOSE k \in ks : \A j \in ks : j <= k

\* The payload a token was last inserted with
PayloadOf(puts, word) ==
    puts[CHOOSE i \in 1..Len(puts) :
           /\ puts[i][1] = word
           /\ \A j \in (i + 1)..Len(puts) : puts[j][1] # word][2]

\* What get(str) has to return: the payload of the longest inserted token that
\* is a prefix of str and the length of that token, nothing when there is none
Expected(puts, str, ks) ==
    IF ks = {} THEN GetRet(NULL, Unset)
    ELSE GetRet(PayloadOf(puts, SubSeq(str, 1, Longest(ks))), Longest(ks))

\* C24: for any pairs inserted with put, in any order, get(s) returns the
\* payload of the longest inserted token that is a prefix of s and the
\* remainder that starts right after that token, and returns nothing exactly
\* when no inserted token is a prefix of s.
C24_GetReturnsLongestPrefix ==
    tree.op = "get"
      => LET e == Expected(tree.puts, tree.str, PrefixLens(tree.puts, tree.str))
         IN  /\ tree.tgt = e.tgt
             /\ e.tgt # NULL => tree.end = e.end

\* ---------------------------------------------------------------------------
\* The arithmetic functions applied to rational operands

MaxNum == 3
MaxDen == 3

\* The invariants of a rational: den = 1 when num = 0, num is 1 or -1 when
\* den = 0, and num and den have no common divisor otherwise
Normalized(v) ==
    /\ v.type = "RATIO"
    /\ v.num = 0 => v.den = 1
    /\ v.den = 0 => v.num \in {-1, 1}
    /\ (v.num # 0 /\ v.den # 0) => Gcd(Abs(v.num), v.den) = 1

Rationals ==
    {v \in {Ratio(n, d) : n \in (-MaxNum)..MaxNum, d \in 0..MaxDen} : Normalized(v)}

\* The integer exponents handed to arith_pow
Exponents == (-WordBits)..WordBits

ArithInit ==
    /\ \E a \in Rationals : \E b \in Rationals : \E c \in Rationals :
         ari = [NoAri EXCEPT !.a = a, !.b = b, !.c = c]
    /\ nmsp = nmsp_new(FALSE)
    /\ last = NoCall
    /\ hist = <<>>
    /\ acc = [n \in Names |-> 0]
    /\ blk = NoBlk
    /\ shu = NoShu
    /\ tree = NoTree

\* The state after func was applied to the operands drawn: it returned r or
\* the process was killed
ArithApplied(func, r) ==
    /\ ari.op = "none"
    /\ ari' = [ari EXCEPT !.op = func, !.ret = r.val, !.err = r.err, !.alt = NoVal]

Others == <<nmsp, last, hist, acc, blk, shu, tree>>

Neg == ArithApplied("arith_neg", arith_neg(<<ari.a>>)) /\ UNCHANGED Others
AbsOf == ArithApplied("arith_abs", arith_abs(<<ari.a>>)) /\ UNCHANGED Others
Add == ArithApplied("arith_add", arith_add(<<ari.a, ari.b>>)) /\ UNCHANGED Others
Sub == ArithApplied("arith_sub", arith_sub(<<ari.a, ari.b>>)) /\ UNCHANGED Others
Mul == ArithApplied("arith_mul", arith_mul(<<ari.a, ari.b>>)) /\ UNCHANGED Others
Div == ArithApplied("arith_div", arith_div(<<ari.a, ari.b>>)) /\ UNCHANGED Others

FlrDiv(ub) ==
    ArithApplied("arith_flrdiv", arith_flrdiv(<<ari.a, ari.b>>, ub)) /\ UNCHANGED Others

Mod(ub) == ArithApplied("arith_mod", arith_mod(<<ari.a, ari.b>>, ub)) /\ UNCHANGED Others

Floor(ub) == ArithApplied("arith_floor", arith_floor(<<ari.a>>, ub)) /\ UNCHANGED Others
Ceil(ub) == ArithApplied("arith_ceil", arith_ceil(<<ari.a>>, ub)) /\ UNCHANGED Others

\* arith_pow with the rational exponent b
Pow == ArithApplied("arith_pow", arith_pow(<<ari.a, ari.b>>)) /\ UNCHANGED Others

\* arith_pow with an integer exponent; the exponent replaces b
PowInt(e) ==
    /\ ari.op = "none"
    /\ ari' = [ari EXCEPT !.op = "arith_pow", !.b = Ratio(e, 1),
                          !.ret = arith_pow(<<ari.a, Ratio(e, 1)>>).val,
                          !.err = "OK", !.alt = NoVal]
    /\ UNCHANGED Others

\* (a + b) + c in ret and a + (b + c) in alt
Summed(left, right) ==
    /\ ari.op = "none"
    /\ ari' = [ari EXCEPT !.op = "sum", !.ret = left.val, !.err = "OK", !.alt = right.val]

Sum ==
    /\ Summed(arith_add(<<arith_add(<<ari.a, ari.b>>).val, ari.c>>),
              arith_add(<<ari.a, arith_add(<<ari.b, ari.c>>).val>>))
    /\ UNCHANGED Others

ArithNext ==
    \/ Neg
    \/ AbsOf
    \/ Add
    \/ Sub
    \/ Mul
    \/ Div
    \/ Pow
    \/ Sum
    \/ \E e \in Exponents : PowInt(e)
    \/ \E ub \in ArithUB : FlrDiv(ub)
    \/ \E ub \in ArithUB : Mod(ub)
    \/ \E ub \in ArithUB : Floor(ub)
    \/ \E ub \in ArithUB : Ceil(ub)

SpecArith == ArithInit /\ [][ArithNext]_vars

\* The value of a finite rational is num / den; x = y for finite rationals
\* with positive denominators is x.num * y.den = y.num * x.den
Finite(v) == v.type = "RATIO" /\ v.den # 0

\* a is congruent to r modulo b: a - r = k * b for an integer k, that is
\* b.num * a.den * r.den divides (a.num * r.den - r.num * a.den) * b.den
Congruent(a, r, b) ==
    ((a.num * r.den - r.num * a.den) * b.den) % Abs(b.num * a.den * r.den) = 0

\* |r| < |b|
Below(r, b) == Abs(r.num) * b.den < Abs(b.num) * r.den

\* C25: for rationals a and b with b # 0, a mod b returns the representative
\* r that is congruent to a modulo b, has |r| < |b| and is zero or has the
\* sign of b.
C25_ModHasSignOfDivisor ==
    (ari.op = "arith_mod" /\ Finite(ari.a) /\ Finite(ari.b) /\ ari.b.num # 0)
      => /\ ari.err = "OK"
         /\ Finite(ari.ret)
         /\ Congruent(ari.a, ari.ret, ari.b)
         /\ Below(ari.ret, ari.b)
         /\ ari.ret.num = 0 \/ Sign(ari.ret.num) = Sign(ari.b.num)

\* C26: dividing a rational by the zero rational returns the sentinel with
\* den = 0 whose sign is the sign of the dividend: num = 1 for a positive
\* dividend and num = -1 for a negative one.
C26_DivByZeroKeepsSign ==
    (ari.op = "arith_div" /\ Finite(ari.a) /\ ari.a.num # 0 /\ ari.b = Ratio(0, 1))
      => ari.ret = Ratio(Sign(ari.a.num), 0)

\* C27: no arithmetic function traps or sets an error, whatever the operands:
\* every call returns a value, also a division, floor-division or modulo by
\* the zero rational.
C27_ArithmeticNeverTraps ==
    ari.op # "none" => (ari.err = "OK" /\ ari.ret.type \in {"RATIO", "REAL"})

\* C28: every rational returned by an arithmetic function applied to
\* normalized operands is normalized: num and den have no common divisor or
\* den is 0 or 1, and den = 1 whenever num = 0.
C28_ResultsNormalized ==
    (ari.op \notin {"none", "sum"} /\ ari.err = "OK" /\ ari.ret.type = "RATIO")
      => /\ ari.ret.den \in {0, 1} \/ Gcd(Abs(ari.ret.num), ari.ret.den) = 1
         /\ ari.ret.num = 0 => ari.ret.den = 1

\* C30: rational addition is associative: (a + b) + c = a + (b + c) for all
\* rationals a, b, c that satisfy the invariants.
C30_AdditionAssociative ==
    ari.op = "sum" => ari.ret = ari.alt

\* ---------------------------------------------------------------------------
\* Numeric literals read with arith_parse, as mcode_parse does

MaxLit == 4

LitChars == DOMAIN DigitVal \cup {"."}

Literals == UNION {[1..k -> LitChars] : k \in 1..MaxLit}

LitInit ==
    /\ \E str \in Literals : ari = [NoAri EXCEPT !.str = str]
    /\ nmsp = nmsp_new(FALSE)
    /\ last = NoCall
    /\ hist = <<>>
    /\ acc = [n \in Names |-> 0]
    /\ blk = NoBlk
    /\ shu = NoShu
    /\ tree = NoTree

\* The text from position pos on
Rest(str, pos) == SubSeq(str, pos + 1, Len(str))

\* "Try to parse constant": the value is loaded and the parser resumes at
\* *endptr
ConstRead(r) ==
    ari' = [ari EXCEPT !.op = "arith_parse", !.ret = r.val, !.pos = @ + r.end,
                       !.vals = Append(@, r.val)]

\* arith_parse at the position of the parser; a call that reads nothing ends
\* the reading of constants
ParseConst ==
    /\ ari.pos < Len(ari.str)
    /\ ari.op = "arith_parse" => ari.ret # Garbage
    /\ ConstRead(arith_parse_text(Rest(ari.str, ari.pos)))
    /\ UNCHANGED Others

LitNext == ParseConst

SpecLit == LitInit /\ [][LitNext]_vars

\* A literal with a fractional part: digits, a point, digits, and nothing else
Decimal(str) ==
    /\ DigitRun(str, 1) > 0
    /\ HasPoint(str, DigitRun(str, 1))
    /\ FracRun(str, DigitRun(str, 1)) > 0
    /\ DigitRun(str, 1) + 1 + FracRun(str, DigitRun(str, 1)) = Len(str)

\* C29: a literal with a fractional part is consumed entirely as one value:
\* after the first arith_parse the parser is behind the last digit.
C29_DecimalConsumedWhole ==
    (Len(ari.vals) = 1 /\ Decimal(ari.str)) => ari.pos = Len(ari.str)



(***************************************************************************)
(* Whole-namespace properties                                              *)
(***************************************************************************)
\* The blocks that the INSTR_CODE_CALL instructions of block c refer to
CalledBy(bs, c) ==
    {bs[c].instrs[i].code : i \in {j \in 1..Len(bs[c].instrs) : bs[c].instrs[j].type = "CODE_CALL"}}

\* The blocks reachable from the blocks in S through such references
RECURSIVE BlockReach(_, _, _)
BlockReach(bs, S, fuel) ==
    LET T == S \cup UNION {CalledBy(bs, c) : c \in S}
    IN  IF fuel = 0 \/ T = S THEN S ELSE BlockReach(bs, T, fuel - 1)

CallsItself(bs, c) == c \in BlockReach(bs, CalledBy(bs, c), Len(bs))

\* C31: in every reachable namespace no chain of INSTR_CODE_CALL references
\* leads from a block back to that block.
C31_NoReferenceCycle ==
    \A c \in 1..Len(nmsp.blocks) : ~CallsItself(nmsp.blocks, c)

\* C32: every define call completes: the walk of find_circ ends, in every
\* reachable namespace, also after a definition was rejected as circular.
C32_DefineCompletes ==
    last.op = "define" => last.err # "HANG"

\* The namespace with the cache of the block of variable v cleared
Afresh(ns, v) == [ns EXCEPT !.blocks[ns.vars[v].code] = mcode_clear(@)]

\* value(v) gives the value and error that running the block of v anew gives
SameAsAfresh(v, r, f) == r.err = f.err /\ r.val = f.val

\* C33: in every reachable namespace, value(x) returns the value and error
\* that executing the block of x afresh returns, also when value(x) was called
\* before variables that x refers to were defined.
C33_CacheNeverStale ==
    \A v \in Held : \A ub \in UBOutcomes :
        SameAsAfresh(v, nmsp_var_value(nmsp, v, ub), nmsp_var_value(Afresh(nmsp, v), v, ub))

\* C34: in every reachable namespace no two variables have the same
\* non-empty name.
C34_NamesUnique ==
    \A i, j \in 1..Len(nmsp.vars) :
        (nmsp.vars[i].name = nmsp.vars[j].name /\ nmsp.vars[i].name # "") => i = j

\* The variables whose blocks the block of an implemented variable v calls
ImplRefs(ns, v) ==
    IF ns.vars[v].has_impl
    THEN {VarOfCode(ns.vars, c) : c \in CalledBy(ns.blocks, ns.vars[v].code)} \ {NULL}
    ELSE {}

\* The variables reachable from those in S through blocks of implemented variables
RECURSIVE VarReach(_, _, _)
VarReach(ns, S, fuel) ==
    LET T == S \cup UNION {ImplRefs(ns, v) : v \in S}
    IN  IF fuel = 0 \/ T = S THEN S ELSE VarReach(ns, T, fuel - 1)

\* The variables that the block parsed by the define call just made calls:
\* the dependency list computed for it before the cycle check
ParsedRefs == {nmsp'.vars[Target].deps[i] : i \in 1..Len(nmsp'.vars[Target].deps)}

\* C35: define returns CircularDependency only if the variable being defined
\* reaches itself through the blocks of the implemented variables.
C35_CircularOnlyOnCycle ==
    [][(last'.op = "define" /\ last'.err = "INSERT_ERR_CIRC")
       => /\ Target # NULL
          /\ Target \in VarReach(nmsp', ParsedRefs, Len(nmsp'.vars))]_vars

\* C36: define on a label whose variable is unimplemented with an unset arity
\* does not return ArityMismatch, whatever the number of parameters (the text
\* itself agrees on every argument count).
C36_UnsetArityAcceptsAnyArity ==
    [][(/\ last'.op = "define"
        /\ Target # NULL
        /\ ~nmsp.vars[Target].has_impl
        /\ BlockOf(nmsp, Target).arity < 0
        /\ Texts[last'.arg].ast # NoAst
        /\ ~CountDisagrees(nmsp, last'.arg))
       => last'.err # "PARSE_ERR_ARITY_MISMATCH"]_vars

\* C37: whenever define returns no error, the block of the variable it
\* returns is valid-complete: its virtual stack height is exactly 1.
C37_AcceptedBlockComplete ==
    (last.op = "define" /\ last.err = "OK")
    => mcode_stack_height(nmsp.blocks, nmsp.vars[last.ret].code) = 1

\* The variable a name with an accepted definition is looked up as
DefinedVar(ns, n) == nmsp_get(ns, n)

\* The block of variable v has the instructions and the arity it had
SameCode(v) ==
    /\ BlockOf(nmsp', v).instrs = BlockOf(nmsp, v).instrs
    /\ BlockOf(nmsp', v).arity = BlockOf(nmsp, v).arity

\* C38: no call removes or renames a variable; a define that succeeds for a
\* name makes get(name) return the variable it returned; and once a define has
\* succeeded for a name, every later call leaves get(name) the same variable
\* and the instructions and the arity of its block as they were.
C38_DefinitionFinal ==
    [][/\ Len(nmsp'.vars) >= Len(nmsp.vars)
       /\ \A v \in 1..Len(nmsp.vars) : nmsp'.vars[v].name = nmsp.vars[v].name
       /\ (last'.op = "define" /\ last'.err = "OK" /\ DefinedText.lbl # "")
            => DefinedVar(nmsp', DefinedText.lbl) = last'.ret
       /\ \A n \in Names :
            acc[n] # 0 => /\ DefinedVar(nmsp', n) = DefinedVar(nmsp, n)
                          /\ SameCode(DefinedVar(nmsp, n))]_vars

\* A name was defined, then put was called on it and a second definition of
\* it was tried: the variable is still the implemented one first returned
C38_Witness_PutAndDefineAfterDefine ==
    /\ Len(hist) = 3
    /\ hist[1].op = "define" /\ hist[2].op = "put" /\ hist[3].op = "define"
    /\ Texts[hist[1].arg].lbl = NameIdx[hist[2].arg]
    /\ Texts[hist[3].arg].lbl = NameIdx[hist[2].arg]
    /\ hist[3].arg # hist[1].arg
    /\ acc[NameIdx[hist[2].arg]] = hist[1].arg
    /\ nmsp.vars[DefinedVar(nmsp, NameIdx[hist[2].arg])].has_impl
    /\ BlockOf(nmsp, DefinedVar(nmsp, NameIdx[hist[2].arg])).instrs # <<>>

(***************************************************************************)
(* The run-time stack of an evaluation against the height tracked while    *)
(* the block was built                                                     *)
(***************************************************************************)
StackErrs == {"EVAL_ERR_MISSING_ARGS", "EVAL_ERR_STACK_SURPLUS", "EVAL_ERR_UNDERFLOW"}

\* The first i instructions of block c run on an empty stack
RunPrefix(bs, c, i, ub) ==
    ExecInstrs([bs EXCEPT ![c].instrs = SubSeq(@, 1, i)], c, NoArgs, NewStack, 1, ub, 0)

\* After the first i instructions the stack holds as many values as the
\* height recomputed for them
GrowsAsTracked(bs, c, i, ub) ==
    RunPrefix(bs, c, i, ub).err = "OK"
    => Len(RunPrefix(bs, c, i, ub).stk.ptr) = Recomputed(SubSeq(bs[c].instrs, 1, i))

\* C39: an evaluation of the block never returns MissingArgs, StackSurplus or
\* StackUnderflow; after each executed instruction the run-time stack holds
\* as many values as the height tracked for the instructions so far, and an
\* evaluation without error ends with exactly one value.
C39_StackDiscipline ==
    blk.op = "eval"
    => /\ blk.err \notin StackErrs
       /\ \A i \in 0..Len(blk.bs[Code].instrs) : \A ub \in UBOutcomes :
            GrowsAsTracked(blk.bs, Code, i, ub)
       /\ blk.err = "OK"
            => \A ub \in UBOutcomes :
                 Len(RunPrefix(blk.bs, Code, Len(blk.bs[Code].instrs), ub).stk.ptr) = 1

\* A block that loads a constant, calls a complete block on it and applies a
\* function to the result was evaluated without error
C39_Witness_CallsEvaluated ==
    /\ blk.op = "eval"
    /\ blk.err = "OK"
    /\ Len(blk.bs[Code].instrs) = 3
    /\ blk.bs[Code].instrs[2].type = "CODE_CALL"
    /\ blk.bs[Code].instrs[3].type = "FUNC_CALL"

=============================================================================
